---- MODULE Spec2Model ----
(***************************************************************************)
(* Model of the prompt-enhancement API: the enrichment pipeline            *)
(* (apps/api/src/pipeline.ts), the LLM client abstraction (llm.ts, kept in *)
(* src/apps/api/src/index.ts lines 32-299) and the chat execution          *)
(* endpoint with its in-memory session store (apps/api/src/app.ts).        *)
(*                                                                         *)
(* Texts are TLA+ strings; TLC evaluates Len, \o and SubSeq on them, so    *)
(* every text operation below works character by character as the          *)
(* JavaScript string methods do.                                           *)
(***************************************************************************)
EXTENDS Integers, Sequences, FiniteSets, TLC

(***************************************************************************)
(* Bounds of the model.                                                    *)
(***************************************************************************)
\* The hard limit of normalizeStep.  It is 8000 in pipeline.ts:21-22; the
\* model scales it down so that inputs longer than the limit are explored.
MaxMessageLen == 12

\* Raw inputs are concatenations of at most MaxPieces pieces of InputPieces.
MaxPieces == 3

\* safetyCheckStep is applied to contexts holding fewer flags than this.
MaxFlags == 2

\* The number of POST /api/chat requests.
MaxExec == 2

\* One read of a response body brings at most MaxReadSize characters, or all
\* that is left of the body.
MaxReadSize == 3

\* The number of requests the web UI sends.
MaxUiRequests == 3

\* One read of the chat stream in the web UI brings at most MaxUiReadSize
\* characters, or all that is left of the stream.
MaxUiReadSize == 12

(***************************************************************************)
(* JavaScript string primitives.                                           *)
(***************************************************************************)
CharAt(s, i) == SubSeq(s, i, i)

\* The characters of the model's alphabet that the regular expression \s and
\* String.prototype.trim treat as white space.
IsWhitespace(c) == c \in {" ", "\n", "\t", "\r"}

UpperCaseLetters == "ABCDEFGHIJKLMNOPQRSTUVWXYZ"

LowerCaseLetters == "abcdefghijklmnopqrstuvwxyz"

toLowerCaseChar(c) ==
    IF \E i \in 1..Len(UpperCaseLetters) : CharAt(UpperCaseLetters, i) = c
    THEN LET i == CHOOSE i \in 1..Len(UpperCaseLetters) : CharAt(UpperCaseLetters, i) = c
         IN  CharAt(LowerCaseLetters, i)
    ELSE c

RECURSIVE toLowerCaseRange(_, _, _)
\* The lower-cased characters lo..hi of s, by halves.
toLowerCaseRange(s, lo, hi) ==
    IF lo > hi THEN ""
    ELSE IF lo = hi THEN toLowerCaseChar(CharAt(s, lo))
    ELSE LET mid == (lo + hi) \div 2
         IN  toLowerCaseRange(s, lo, mid) \o toLowerCaseRange(s, mid + 1, hi)

\* String.prototype.toLowerCase
toLowerCase(s) == toLowerCaseRange(s, 1, Len(s))

\* String.prototype.includes: k occurs in s as a contiguous substring.
includes(s, k) ==
    \E i \in 1..(Len(s) - Len(k) + 1) : SubSeq(s, i, i + Len(k) - 1) = k

\* String.prototype.startsWith
startsWith(s, k) == Len(s) >= Len(k) /\ SubSeq(s, 1, Len(k)) = k

\* String.prototype.substring(0, n)
substring0(s, n) == IF Len(s) > n THEN SubSeq(s, 1, n) ELSE s

\* String.prototype.slice(n): the text after the first n characters.
sliceFrom(s, n) == SubSeq(s, n + 1, Len(s))

\* String.prototype.trim
trim(s) ==
    LET nonWs == {i \in 1..Len(s) : ~IsWhitespace(CharAt(s, i))}
    IN  IF nonWs = {} THEN ""
        ELSE LET first == CHOOSE i \in nonWs : \A j \in nonWs : i <= j
                 last  == CHOOSE i \in nonWs : \A j \in nonWs : j <= i
             IN  SubSeq(s, first, last)

RECURSIVE collapseRange(_, _, _)
\* Characters lo..hi of s with every white space character replaced: the
\* first of a run by one space, the others by nothing.
collapseRange(s, lo, hi) ==
    IF lo > hi THEN ""
    ELSE IF lo = hi
         THEN IF IsWhitespace(CharAt(s, lo))
              THEN IF lo > 1 /\ IsWhitespace(CharAt(s, lo - 1)) THEN "" ELSE " "
              ELSE CharAt(s, lo)
    ELSE LET mid == (lo + hi) \div 2
         IN  collapseRange(s, lo, mid) \o collapseRange(s, mid + 1, hi)

\* s.replace(/\s+/g, " "): every maximal run of white space becomes one space.
collapseWhitespace(s) == collapseRange(s, 1, Len(s))

\* The positions at which s holds the character sep.
positionsOf(s, sep) == {i \in 1..Len(s) : CharAt(s, i) = sep}

\* The pieces of s between the separators at the positions at: the k-th
\* piece lies between the (k-1)-th and the k-th of them.
piecesBetween(s, at) ==
    LET nth(k) == CHOOSE i \in at : Cardinality({j \in at : j < i}) = k - 1
    IN  [k \in 1..(Cardinality(at) + 1) |->
            SubSeq(s, IF k = 1 THEN 1 ELSE nth(k - 1) + 1,
                      IF k = Cardinality(at) + 1 THEN Len(s) ELSE nth(k) - 1)]

\* String.prototype.split with a one-character separator: "" yields <<"">>
\* and adjacent separators yield empty pieces.  The text and the positions
\* are computed once.
split(s, sep) ==
    CHOOSE pieces \in UNION {{piecesBetween(str, at) : at \in {positionsOf(str, sep)}} :
                                 str \in {s}} : TRUE

RECURSIVE concatRange(_, _, _)
concatRange(parts, lo, hi) ==
    IF lo > hi THEN ""
    ELSE IF lo = hi THEN parts[lo]
    ELSE LET mid == (lo + hi) \div 2
         IN  concatRange(parts, lo, mid) \o concatRange(parts, mid + 1, hi)

\* The concatenation, in order, of a sequence of texts.
concatAll(parts) == concatRange(parts, 1, Len(parts))

Range(f) == {f[i] : i \in DOMAIN f}


(***************************************************************************)
(* llm.ts (src/apps/api/src/index.ts:32-299): the LLM clients.             *)
(*                                                                         *)
(* streamChat is an async generator.  The model runs it from one           *)
(* suspension point (a timer, the fetch, a read of the response body) to   *)
(* the next in a single step, as the event loop does: streamStart is the   *)
(* first next() call and streamResume the continuation after the awaited   *)
(* event.  Either returns the generator's new state, the fragments it      *)
(* yielded on the way (out) and how the run stopped: suspended at the next *)
(* await, returned, or threw an error.                                     *)
(***************************************************************************)
NoError == [name |-> "", message |-> ""]

\* new DOMException("Aborted", "AbortError")
MockAbortError == [name |-> "AbortError", message |-> "Aborted"]

\* What fetch and the body reader reject with once the signal is aborted.
FetchAbortError == [name |-> "AbortError", message |-> "This operation was aborted"]

\* What fetch and the body reader reject with when the connection fails.
NetworkError == [name |-> "TypeError", message |-> "fetch failed"]

Suspended(g, out) == [gen |-> g, out |-> out, status |-> "suspended", error |-> NoError]

Returned(g, out) ==
    [gen |-> [g EXCEPT !.pc = "returned"], out |-> out, status |-> "returned",
     error |-> NoError]

Threw(g, out, err) ==
    [gen |-> [g EXCEPT !.pc = "threw"], out |-> out, status |-> "threw", error |-> err]

\* createLLMClient testing the provider before the force-mock flag.
createLLMClientProviderFirst(e) ==
    LET provider == IF e.LLM_PROVIDER = "" THEN "mock" ELSE e.LLM_PROVIDER
        apiKey   == e.LLM_API_KEY
        useMock  == e.USE_MOCK_LLM = "true"
    IN  IF provider = "ollama" THEN [class |-> "OllamaClient", apiKey |-> ""]
        ELSE IF useMock THEN [class |-> "MockLLMClient", apiKey |-> ""]
        ELSE IF apiKey # "" THEN [class |-> "RealLLMClient", apiKey |-> e.LLM_API_KEY]
        ELSE [class |-> "MockLLMClient", apiKey |-> ""]

\* process.env as createLLMClient and the constructors read it; an unset
\* variable is the empty text.
createLLMClient(e) ==
    LET provider == IF e.LLM_PROVIDER = "" THEN "mock" ELSE e.LLM_PROVIDER
        apiKey   == e.LLM_API_KEY
        useMock  == e.USE_MOCK_LLM = "true"
    IN  IF useMock THEN [class |-> "MockLLMClient", apiKey |-> ""]
        ELSE IF provider = "ollama" THEN [class |-> "OllamaClient", apiKey |-> ""]
        ELSE IF apiKey # "" THEN [class |-> "RealLLMClient", apiKey |-> e.LLM_API_KEY]
        ELSE [class |-> "MockLLMClient", apiKey |-> ""]

(***************************************************************************)
(* MockLLMClient.streamChat                                                *)
(***************************************************************************)
\* The response text without the prompt it answers.
MockResponseTextWithoutPrompt(prompt) ==
    "[MOCK] I received your request. \n\nHere is a generated answer."

MockResponseText(prompt) ==
    "[MOCK] I received your request: \"" \o prompt \o
    "\". \n\nHere is a generated answer based on the enriched prompt. I am simulating a real LLM response to demonstrate the streaming capability."

EndOfMockResponse == "\n\n(End of Mock Response)"

\* Runs to the 500 ms timer.
mockStreamStart(messages) ==
    LET prompt == IF messages # <<>> THEN messages[Len(messages)].content
                  ELSE "No prompt provided"
    IN  Suspended([class |-> "MockLLMClient", pc |-> "think", prompt |-> prompt,
                   chunks |-> <<>>, i |-> 0], <<>>)

\* A timer fired.  After the thinking time the text is split and the loop is
\* entered; after the timer of chunk i the chunk is yielded and the loop goes
\* on to the signal check of chunk i + 1, or past the loop to the last yield.
mockStreamResume(g, aborted) ==
    IF g.pc = "think"
    THEN LET chunks == split(MockResponseText(g.prompt), " ")
         IN  IF aborted THEN Threw(g, <<>>, MockAbortError)
             ELSE Suspended([g EXCEPT !.pc = "typing", !.chunks = chunks, !.i = 1], <<>>)
    ELSE LET out == <<g.chunks[g.i] \o " ">>
         IN  IF g.i < Len(g.chunks)
             THEN IF aborted THEN Threw(g, out, MockAbortError)
                  ELSE Suspended([g EXCEPT !.i = g.i + 1], out)
             ELSE Returned(g, out \o <<EndOfMockResponse>>)

(***************************************************************************)
(* JSON.parse, for the objects of the two wire contracts.  A text of any   *)
(* other form is a parse failure (or an object the caller's field accesses *)
(* fail on), which both callers catch and skip.                            *)
(***************************************************************************)
endsWith(s, k) == Len(s) >= Len(k) /\ SubSeq(s, Len(s) - Len(k) + 1, Len(s)) = k

\* t is prefix, a text without quotes or backslashes, suffix.
IsQuoted(t, prefix, suffix) ==
    /\ Len(t) >= Len(prefix) + Len(suffix)
    /\ startsWith(t, prefix)
    /\ endsWith(t, suffix)
    /\ LET mid == SubSeq(t, Len(prefix) + 1, Len(t) - Len(suffix))
       IN  ~includes(mid, "\"") /\ ~includes(mid, "\\")

Quoted(t, prefix, suffix) == SubSeq(t, Len(prefix) + 1, Len(t) - Len(suffix))

\* An object of the Ollama /api/generate stream; an absent field reads as
\* undefined, modelled by the falsy "" and FALSE.
JsonParseOllama(t) ==
    IF IsQuoted(t, "{\"response\":\"", "\",\"done\":false}")
    THEN [ok |-> TRUE, response |-> Quoted(t, "{\"response\":\"", "\",\"done\":false}"),
          done |-> FALSE]
    ELSE IF IsQuoted(t, "{\"response\":\"", "\",\"done\":true}")
    THEN [ok |-> TRUE, response |-> Quoted(t, "{\"response\":\"", "\",\"done\":true}"),
          done |-> TRUE]
    ELSE IF IsQuoted(t, "{\"response\":\"", "\"}")
    THEN [ok |-> TRUE, response |-> Quoted(t, "{\"response\":\"", "\"}"), done |-> FALSE]
    ELSE IF t = "{\"done\":true}" THEN [ok |-> TRUE, response |-> "", done |-> TRUE]
    ELSE IF t \in {"{\"done\":false}", "{}"}
    THEN [ok |-> TRUE, response |-> "", done |-> FALSE]
    ELSE [ok |-> FALSE, response |-> "", done |-> FALSE]

\* An event of the chat completions stream, read as
\* data.choices[0]?.delta?.content; an object without a choices array makes
\* that access throw, which the caller catches like a parse failure.
JsonParseHosted(t) ==
    IF IsQuoted(t, "{\"choices\":[{\"delta\":{\"content\":\"", "\"}}]}")
    THEN [ok |-> TRUE,
          content |-> Quoted(t, "{\"choices\":[{\"delta\":{\"content\":\"", "\"}}]}")]
    ELSE IF t \in {"{\"choices\":[{\"delta\":{}}]}", "{\"choices\":[{}]}", "{\"choices\":[]}"}
    THEN [ok |-> TRUE, content |-> ""]
    ELSE [ok |-> FALSE, content |-> ""]

(***************************************************************************)
(* OllamaClient.streamChat                                                 *)
(***************************************************************************)
RECURSIVE ollamaLinesStoppingAtMalformed(_, _, _)
\* The for loop left at the first line that does not parse.
ollamaLinesStoppingAtMalformed(lines, n, out) ==
    IF n > Len(lines) THEN [out |-> out, returned |-> FALSE]
    ELSE LET trimmed == trim(lines[n])
             data    == JsonParseOllama(trimmed)
         IN  IF trimmed = "" THEN ollamaLinesStoppingAtMalformed(lines, n + 1, out)
             ELSE IF ~data.ok THEN [out |-> out, returned |-> FALSE]
             ELSE IF data.done THEN [out |-> out, returned |-> TRUE]
             ELSE IF data.response # ""
                  THEN ollamaLinesStoppingAtMalformed(lines, n + 1,
                                                      Append(out, data.response))
                  ELSE ollamaLinesStoppingAtMalformed(lines, n + 1, out)

RECURSIVE ollamaLines(_, _, _)
\* The for loop over the complete lines of one read: out are the fragments
\* yielded so far; returned tells that a line with done set ended the generator.
ollamaLines(lines, n, out) ==
    IF n > Len(lines) THEN [out |-> out, returned |-> FALSE]
    ELSE LET trimmed == trim(lines[n])
             data    == JsonParseOllama(trimmed)
         IN  IF trimmed = "" THEN ollamaLines(lines, n + 1, out)
             ELSE IF ~data.ok THEN ollamaLines(lines, n + 1, out)
             ELSE IF data.done THEN [out |-> out, returned |-> TRUE]
             ELSE IF data.response # ""
                  THEN ollamaLines(lines, n + 1, Append(out, data.response))
                  ELSE ollamaLines(lines, n + 1, out)

\* Runs to the fetch, which is issued with the signal.
ollamaStreamStart(messages) ==
    Suspended([class |-> "OllamaClient", pc |-> "fetch", wire |-> "", buffer |-> "",
               response |-> [status |-> "", statusText |-> ""]], <<>>)

ollamaStreamResume(g, aborted, ev) ==
    IF g.pc = "fetch"
    THEN IF aborted THEN Threw(g, <<>>, FetchAbortError)
         ELSE IF ev.type = "networkError" THEN Threw(g, <<>>, NetworkError)
         ELSE IF ~ev.ok
              THEN Suspended([g EXCEPT !.pc = "errorText", !.wire = ev.body,
                                       !.response = [status |-> ev.status,
                                                     statusText |-> ev.statusText]], <<>>)
         ELSE IF ~ev.hasBody
              THEN Threw(g, <<>>, [name |-> "Error",
                                   message |-> "No response body received from Ollama"])
         ELSE Suspended([g EXCEPT !.pc = "read", !.wire = ev.body, !.buffer = ""], <<>>)
    ELSE IF g.pc = "errorText"
    THEN LET errorText == IF aborted \/ ev.type = "networkError"
                          THEN "Unknown error" ELSE g.wire
         IN  Threw(g, <<>>,
                   [name |-> "Error",
                    message |-> "Ollama API Error: " \o g.response.statusText \o " (" \o
                                g.response.status \o ") - " \o errorText])
    ELSE \* g.pc = "read"
         IF aborted THEN Threw(g, <<>>, FetchAbortError)
         ELSE IF ev.type = "networkError" THEN Threw(g, <<>>, NetworkError)
         ELSE IF ev.type = "chunk"
              THEN LET value  == SubSeq(g.wire, 1, ev.n)
                       lines  == split(g.buffer \o value, "\n")
                       buffer == lines[Len(lines)]
                       done   == ollamaLines(SubSeq(lines, 1, Len(lines) - 1), 1, <<>>)
                       g1     == [g EXCEPT !.wire = sliceFrom(g.wire, ev.n),
                                           !.buffer = buffer]
                   IN  IF done.returned THEN Returned(g1, done.out)
                       ELSE Suspended(g1, done.out)
         ELSE \* the body ended: the rest of the buffer is parsed as it is
              LET data == JsonParseOllama(trim(g.buffer))
              IN  IF trim(g.buffer) # "" /\ data.ok /\ data.response # ""
                  THEN Returned(g, <<data.response>>)
                  ELSE Returned(g, <<>>)

(***************************************************************************)
(* RealLLMClient.streamChat                                                *)
(***************************************************************************)
RECURSIVE hostedLines(_, _, _)
\* The for loop over the complete lines of one read.
hostedLines(lines, n, out) ==
    IF n > Len(lines) THEN out
    ELSE LET trimmed == trim(lines[n])
             data    == JsonParseHosted(sliceFrom(trimmed, 6))
         IN  IF trimmed = "" \/ trimmed = "data: [DONE]" THEN hostedLines(lines, n + 1, out)
             ELSE IF startsWith(trimmed, "data: ") /\ data.ok /\ data.content # ""
                  THEN hostedLines(lines, n + 1, Append(out, data.content))
                  ELSE hostedLines(lines, n + 1, out)

\* streamChat without the test of the key: it runs to the fetch.
hostedStreamStartWithoutKeyTest(client, messages) ==
    Suspended([class |-> "RealLLMClient", pc |-> "fetch", wire |-> "", buffer |-> ""],
              <<>>)

\* Throws at once without a key, else runs to the fetch.
hostedStreamStart(client, messages) ==
    LET g == [class |-> "RealLLMClient", pc |-> "fetch", wire |-> "", buffer |-> ""]
    IN  IF client.apiKey = ""
        THEN Threw(g, <<>>,
                   [name |-> "Error",
                    message |-> "LLM_API_KEY is not set. Please set LLM_API_KEY in .env"])
        ELSE Suspended(g, <<>>)

\* streamChat parsing every line of a read, the partial last one too, and
\* keeping nothing for the next read.
hostedStreamResumeWithoutBuffer(g, aborted, ev) ==
    IF g.pc = "fetch"
    THEN IF aborted THEN Threw(g, <<>>, FetchAbortError)
         ELSE IF ev.type = "networkError" THEN Threw(g, <<>>, NetworkError)
         ELSE IF ~ev.ok
              THEN Threw(g, <<>>,
                         [name |-> "Error",
                          message |-> "LLM API Error: " \o ev.statusText \o " (" \o
                                      ev.status \o ")"])
         ELSE IF ~ev.hasBody
              THEN Threw(g, <<>>, [name |-> "Error",
                                   message |-> "No response body received from LLM provider"])
         ELSE Suspended([g EXCEPT !.pc = "read", !.wire = ev.body, !.buffer = ""], <<>>)
    ELSE IF aborted THEN Threw(g, <<>>, FetchAbortError)
         ELSE IF ev.type = "networkError" THEN Threw(g, <<>>, NetworkError)
         ELSE IF ev.type = "chunk"
              THEN LET value == SubSeq(g.wire, 1, ev.n)
                       lines == split(value, "\n")
                       out   == hostedLines(lines, 1, <<>>)
                   IN  Suspended([g EXCEPT !.wire = sliceFrom(g.wire, ev.n),
                                           !.buffer = ""], out)
         ELSE Returned(g, <<>>)

hostedStreamResume(g, aborted, ev) ==
    IF g.pc = "fetch"
    THEN IF aborted THEN Threw(g, <<>>, FetchAbortError)
         ELSE IF ev.type = "networkError" THEN Threw(g, <<>>, NetworkError)
         ELSE IF ~ev.ok
              THEN Threw(g, <<>>,
                         [name |-> "Error",
                          message |-> "LLM API Error: " \o ev.statusText \o " (" \o
                                      ev.status \o ")"])
         ELSE IF ~ev.hasBody
              THEN Threw(g, <<>>, [name |-> "Error",
                                   message |-> "No response body received from LLM provider"])
         ELSE Suspended([g EXCEPT !.pc = "read", !.wire = ev.body, !.buffer = ""], <<>>)
    ELSE \* g.pc = "read"
         IF aborted THEN Threw(g, <<>>, FetchAbortError)
         ELSE IF ev.type = "networkError" THEN Threw(g, <<>>, NetworkError)
         ELSE IF ev.type = "chunk"
              THEN LET value  == SubSeq(g.wire, 1, ev.n)
                       lines  == split(g.buffer \o value, "\n")
                       buffer == lines[Len(lines)]
                       out    == hostedLines(SubSeq(lines, 1, Len(lines) - 1), 1, <<>>)
                   IN  Suspended([g EXCEPT !.wire = sliceFrom(g.wire, ev.n),
                                           !.buffer = buffer], out)
         ELSE Returned(g, <<>>)

(***************************************************************************)
(* The three clients behind the LLMClient interface.                       *)
(***************************************************************************)
streamStart(client, messages) ==
    IF client.class = "MockLLMClient" THEN mockStreamStart(messages)
    ELSE IF client.class = "OllamaClient" THEN ollamaStreamStart(messages)
    ELSE hostedStreamStart(client, messages)

streamResume(g, aborted, ev) ==
    IF g.class = "MockLLMClient" THEN mockStreamResume(g, aborted)
    ELSE IF g.class = "OllamaClient" THEN ollamaStreamResume(g, aborted, ev)
    ELSE hostedStreamResume(g, aborted, ev)

(***************************************************************************)
(* The environment of a client: the HTTP responses and the events that can *)
(* end an await.                                                           *)
(***************************************************************************)
OllamaBodies ==
    { "{\"response\":\"Hi\",\"done\":false}\n{\"response\":\"!\",\"done\":false}\n{\"done\":true}\n",
      "{\"response\":\"a\",\"done\":false}\n{oops\n{\"response\":\"b\"}" }

HostedBodies ==
    { "data: {\"choices\":[{\"delta\":{\"content\":\"Hi\"}}]}\n\ndata: {\"choices\":[{\"delta\":{\"content\":\"!\"}}]}\n\ndata: [DONE]\n\n",
      "data: {\"choices\":[{\"delta\":{}}]}\n: ping\ndata: {\"choices\":[{\"delta\":{\"content\":\"a\"}}]}\n" }

\* Responses of the local service beside OllamaBodies: an object after the
\* one with done set; a last object with done set, a text and no newline
\* after it; the same followed by a line; objects without a text.
MoreOllamaBodies ==
    { "{\"response\":\"a\",\"done\":false}\n{\"done\":true}\n{\"response\":\"z\",\"done\":false}\n",
      "{\"response\":\"a\",\"done\":false}\n{\"response\":\"z\",\"done\":true}",
      "{\"response\":\"a\",\"done\":false}\n{\"response\":\"z\",\"done\":true}\n{\"response\":\"y\",\"done\":false}",
      "{\"done\":false}\n{oops\n{\"response\":\"b\",\"done\":false}\n\n{\"response\":\"c\"}\n" }

\* Responses of the hosted API beside HostedBodies: an event after the DONE
\* line; payloads that are no JSON or hold no choice, and a last event with
\* no newline after it.
MoreHostedBodies ==
    { "data: {\"choices\":[{\"delta\":{\"content\":\"a\"}}]}\n\ndata: [DONE]\n\ndata: {\"choices\":[{\"delta\":{\"content\":\"z\"}}]}\n\n",
      "data: {\"choices\":[{\"delta\":{\"content\":\"a\"}}]}\n\ndata: {oops\n\ndata: {\"choices\":[]}\n\ndata: {\"choices\":[{\"delta\":{\"content\":\"b\"}}]}\n\ndata: {\"choices\":[{\"delta\":{\"content\":\"c\"}}]}" }

StreamBodies(class) ==
    IF class = "OllamaClient" THEN OllamaBodies \cup MoreOllamaBodies
    ELSE HostedBodies \cup MoreHostedBodies

BodiesOf(class) == IF class = "OllamaClient" THEN OllamaBodies ELSE HostedBodies

Timer == [type |-> "timer"]

HttpResponses(class) ==
    {[type |-> "response", ok |-> TRUE, status |-> "200", statusText |-> "OK",
      hasBody |-> TRUE, body |-> b] : b \in BodiesOf(class)}
    \cup
    {[type |-> "response", ok |-> FALSE, status |-> "500",
      statusText |-> "Internal Server Error", hasBody |-> TRUE, body |-> "overloaded"],
     [type |-> "response", ok |-> TRUE, status |-> "204", statusText |-> "No Content",
      hasBody |-> FALSE, body |-> ""]}

\* The events that can resume the generator g.  Once the signal is aborted
\* the pending fetch or read rejects whatever the network would have brought.
streamEvents(g, aborted) ==
    IF g.class = "MockLLMClient" \/ aborted THEN {Timer}
    ELSE IF g.pc = "fetch" THEN HttpResponses(g.class) \cup {[type |-> "networkError"]}
    ELSE IF g.pc = "errorText" THEN {[type |-> "text"], [type |-> "networkError"]}
    ELSE IF g.wire = "" THEN {[type |-> "end"], [type |-> "networkError"]}
    ELSE {[type |-> "chunk", n |-> k] :
              k \in {n \in 1..Len(g.wire) : n <= MaxReadSize \/ n = Len(g.wire)}}
         \cup {[type |-> "networkError"]}

(***************************************************************************)
(* State.                                                                  *)
(***************************************************************************)
VARIABLES
    ctx,            \* the EnrichmentContext held by a caller of the pipeline's steps
    lastCall,       \* the last step call made: its function, argument and result
    env,            \* process.env: USE_MOCK_LLM, LLM_PROVIDER, LLM_API_KEY
    call,           \* the pipeline call in progress
    sessionStore,   \* app.ts:37: session id -> the session's messages
    execs,          \* the POST /api/chat requests
    ui              \* the web UI: the state of the Home component and its requests

stepVars == <<ctx, lastCall>>

chatVars == <<sessionStore, execs>>

vars == <<ctx, lastCall, env, call, sessionStore, execs, ui>>

\* The Home component as it is mounted (shared/src/index.ts:77-94): null is
\* the empty text for error and 0 for the AbortController's reference;
\* requests are the calls of handleEnrich and handleSend made so far, the
\* n-th one holding the n-th AbortController.
IdleUi ==
    [ input |-> "", messages |-> <<>>, sessionId |-> "ui-session",
      intentLevel |-> "casual", phase |-> "idle", error |-> "", enrichedPrompt |-> "",
      abortControllerRef |-> 0, requests |-> <<>> ]

(***************************************************************************)
(* pipeline.ts: the pipeline's steps.                                      *)
(***************************************************************************)
\* Step 1: trim, collapse white space runs, then cut at the hard limit.
normalizeStep(c) ==
    LET trimmed   == trim(c.userMessage)
        collapsed == collapseWhitespace(trimmed)
        normalized == IF Len(collapsed) > MaxMessageLen
                      THEN substring0(collapsed, MaxMessageLen)
                      ELSE collapsed
    IN  [c EXCEPT !.userMessage = normalized]

unsafeKeywords == <<"ignore previous instructions", "system prompt", "drop table">>

\* safetyCheckStep without the toLowerCase call of pipeline.ts:36.
safetyCheckStepCaseSensitive(c) ==
    IF \E n \in DOMAIN unsafeKeywords : includes(c.userMessage, unsafeKeywords[n])
    THEN [c EXCEPT !.safetyFlags = Append(c.safetyFlags, "unsafe_keyword_detected")]
    ELSE c

\* Step 2: one flag is pushed when some keyword occurs in the lower-cased text.
safetyCheckStep(c) ==
    LET flags == c.safetyFlags
    IN  IF \E n \in DOMAIN unsafeKeywords :
               includes(toLowerCase(c.userMessage), unsafeKeywords[n])
        THEN [c EXCEPT !.safetyFlags = Append(flags, "unsafe_keyword_detected")]
        ELSE [c EXCEPT !.safetyFlags = flags]

(***************************************************************************)
(* pipeline.ts: the rewrite stage.                                         *)
(***************************************************************************)
\* The switch with the academic block for its default branch.
getIntentSystemPromptDefaultingToAcademic(intent) ==
    IF intent = "concise" THEN
        "You are a concise expert assistant.\nProvide a short, direct answer.\nFocus only on the most important points.\nAvoid long explanations, examples, or repetition."
    ELSE IF intent = "deep-dive" THEN
        "You are an expert providing an in-depth explanation.\nCover theory, structure, edge cases, and implications.\nInclude detailed explanations and multiple perspectives.\nAssume a technically advanced audience."
    ELSE IF intent = "casual" THEN
        "You are a friendly and knowledgeable assistant.\nExplain concepts clearly and intuitively.\nUse simple language and examples.\nAvoid unnecessary formalism or deep theory unless explicitly requested."
    ELSE
        "You are an academic instructor.\nProvide formal definitions and structured explanations.\nUse precise terminology and clear organization.\nAssume the reader is a university-level student."

\* The switch of getIntentSystemPrompt; every other value takes the default
\* branch, which is the casual one.
getIntentSystemPrompt(intent) ==
    IF intent = "academic" THEN
        "You are an academic instructor.\nProvide formal definitions and structured explanations.\nUse precise terminology and clear organization.\nAssume the reader is a university-level student."
    ELSE IF intent = "concise" THEN
        "You are a concise expert assistant.\nProvide a short, direct answer.\nFocus only on the most important points.\nAvoid long explanations, examples, or repetition."
    ELSE IF intent = "deep-dive" THEN
        "You are an expert providing an in-depth explanation.\nCover theory, structure, edge cases, and implications.\nInclude detailed explanations and multiple perspectives.\nAssume a technically advanced audience."
    ELSE
        "You are a friendly and knowledgeable assistant.\nExplain concepts clearly and intuitively.\nUse simple language and examples.\nAvoid unnecessary formalism or deep theory unless explicitly requested."

\* The template literal of pipeline.ts:90-104.
enrichmentPrompt(intentInstruction, userMessage) ==
    "You are a professional Prompt Engineer.\nYour goal is to rewrite the user's prompt to be more effective, precise, and robust for an LLM.\nRetain the user's original intent but improve clarity, context, and structure.\nDo not answer the user's prompt. Only rewrite it.\n\nIMPORTANT: The rewritten prompt should be self-contained and strictly instructions for the model.\nDo not include conversational filler like \"Here is the improved prompt\".\nDo not include the user's original request in the output, only the enhanced version.\nEmbed the following persona/intent instructions into the rewritten prompt:\n\""
    \o intentInstruction \o
    "\"\n\nUser's Original Prompt:\n\""
    \o userMessage \o
    "\"\n\nEnriched Prompt:"

RefusalText == "I cannot fulfill this request due to safety concerns."

\* The two messages aiEnrichmentStep passes to chat.
enrichmentMessages(c) ==
    << [role |-> "system", content |-> "You are a professional Prompt Engineer."],
       [role |-> "user",
        content |-> enrichmentPrompt(getIntentSystemPrompt(c.intentLevel), c.userMessage)] >>

\* formatEnrichedPrompt without its test for a single assistant message.
formatEnrichedPromptJoiningOnly(messages) ==
    LET find(role) ==
            IF \E n \in DOMAIN messages : messages[n].role = role
            THEN messages[CHOOSE n \in DOMAIN messages :
                              /\ messages[n].role = role
                              /\ \A m \in 1..(n - 1) : messages[m].role # role].content
            ELSE ""
        systemMsg == find("system")
        userMsg   == find("user")
    IN  IF systemMsg # "" /\ userMsg # ""
        THEN systemMsg \o "\n\nUser request:\n" \o userMsg
        ELSE IF systemMsg # "" THEN systemMsg ELSE userMsg

\* Extracts the text shown to the user from the pipeline's messages.
formatEnrichedPrompt(messages) ==
    IF Len(messages) = 1 /\ messages[1].role = "assistant"
    THEN messages[1].content
    ELSE LET find(role) ==
                 IF \E n \in DOMAIN messages : messages[n].role = role
                 THEN messages[CHOOSE n \in DOMAIN messages :
                                   /\ messages[n].role = role
                                   /\ \A m \in 1..(n - 1) : messages[m].role # role].content
                 ELSE ""
             systemMsg == find("system")
             userMsg   == find("user")
         IN  IF systemMsg # "" /\ userMsg # ""
             THEN systemMsg \o "\n\nUser request:\n" \o userMsg
             ELSE IF systemMsg # "" THEN systemMsg ELSE userMsg

(***************************************************************************)
(* Inputs of the step calls.                                               *)
(***************************************************************************)
InputPieces ==
    {" ", "\n", "a", "hello world", "Drop Table", "system prompt",
     "Ignore Previous Instructions"}

RECURSIVE TextsOf(_)
TextsOf(n) ==
    IF n = 0 THEN {""}
    ELSE TextsOf(n - 1) \cup {t \o p : t \in TextsOf(n - 1), p \in InputPieces}

RawInputs == TextsOf(MaxPieces)

IntentLevels == {"casual", "academic", "concise", "deep-dive"}

\* A context as runPipeline builds it (pipeline.ts:154-162), for a caller
\* that may already hold a flag.
NewContext(message, intentLevel, flags) ==
    [ userMessage |-> message,
      intentLevel |-> intentLevel,
      language    |-> "en",
      intent      |-> "other",
      safetyFlags |-> flags ]

NoCall == [fn |-> "none", argFrom |-> "none"]

\* One configuration for each way through createLLMClient.
Envs ==
    { [USE_MOCK_LLM |-> "true", LLM_PROVIDER |-> "ollama", LLM_API_KEY |-> "sk-test"],
      [USE_MOCK_LLM |-> "",     LLM_PROVIDER |-> "ollama", LLM_API_KEY |-> "sk-test"],
      [USE_MOCK_LLM |-> "",     LLM_PROVIDER |-> "openai", LLM_API_KEY |-> "sk-test"],
      [USE_MOCK_LLM |-> "",     LLM_PROVIDER |-> "",       LLM_API_KEY |-> "sk-test"],
      [USE_MOCK_LLM |-> "",     LLM_PROVIDER |-> "",       LLM_API_KEY |-> ""] }

DefaultEnv == [USE_MOCK_LLM |-> "", LLM_PROVIDER |-> "", LLM_API_KEY |-> ""]

NoGen == [class |-> "none", pc |-> "none"]

NoResponse == [status |-> 0]

IdleCall ==
    [ state |-> "idle", entry |-> "none", c |-> NewContext("", "", <<>>),
      gen |-> NoGen, aborted |-> FALSE, abortedAfter |-> -1, yielded |-> <<>>,
      streamStatus |-> "none",
      streamError |-> NoError,
      chat |-> [status |-> "none", result |-> "", error |-> NoError],
      backendCalls |-> 0, sent |-> <<>>, body |-> "", rawMessage |-> "",
      enrichedText |-> "",
      messages |-> <<>>, error |-> NoError, response |-> NoResponse ]

StepInit ==
    /\ \E m \in RawInputs, f \in {<<>>, <<"flagged_by_caller">>} :
           ctx = NewContext(m, "casual", f)
    /\ lastCall = NoCall
    /\ ui = IdleUi
    /\ env = DefaultEnv
    /\ call = IdleCall
    /\ sessionStore = <<>>
    /\ execs = <<>>

\* A caller applies normalizeStep to the context it holds.
CallNormalizeStep ==
    /\ ctx' = normalizeStep(ctx)
    /\ lastCall' = [fn |-> "normalizeStep", arg |-> ctx, ret |-> ctx',
                    argFrom |-> lastCall.fn]
    /\ UNCHANGED <<ui, env, call, chatVars>>

\* A caller applies safetyCheckStep to the context it holds.
CallSafetyCheckStep ==
    /\ Len(ctx.safetyFlags) < MaxFlags
    /\ ctx' = safetyCheckStep(ctx)
    /\ lastCall' = [fn |-> "safetyCheckStep", arg |-> ctx, ret |-> ctx',
                    argFrom |-> lastCall.fn]
    /\ UNCHANGED <<ui, env, call, chatVars>>

StepNext ==
    \/ CallNormalizeStep
    \/ CallSafetyCheckStep

StepSpec == StepInit /\ [][StepNext]_vars

(***************************************************************************)
(* The configuration and the factory: process.env changes between calls of *)
(* createLLMClient (index.ts:55-74), which aiEnrichmentStep                *)
(* (pipeline.ts:84) and POST /api/chat (app.ts:140) call once per request. *)
(***************************************************************************)
\* Every value the three tests of createLLMClient tell apart, set or unset.
ConfigEnvs ==
    [ USE_MOCK_LLM : {"", "true", "false"},
      LLM_PROVIDER : {"", "mock", "ollama", "openai"},
      LLM_API_KEY  : {"", "sk-test"} ]

ConfigInit ==
    /\ env \in ConfigEnvs
    /\ lastCall = NoCall
    /\ ui = IdleUi
    /\ ctx = NewContext("", "casual", <<>>)
    /\ call = IdleCall
    /\ sessionStore = <<>>
    /\ execs = <<>>

\* The process's configuration changes.
SetEnv ==
    /\ \E e \in ConfigEnvs : e # env /\ env' = e
    /\ UNCHANGED <<ui, ctx, lastCall, call, chatVars>>

\* A request calls createLLMClient(); prev is the client the request before
\* it was given.
CallCreateLLMClient ==
    /\ lastCall' = [fn |-> "createLLMClient", arg |-> env, ret |-> createLLMClient(env),
                    argFrom |-> lastCall.fn,
                    prev |-> IF lastCall.fn = "createLLMClient" THEN lastCall.ret
                             ELSE [class |-> "none", apiKey |-> ""]]
    /\ UNCHANGED <<ui, ctx, env, call, chatVars>>

ConfigNext ==
    \/ SetEnv
    \/ CallCreateLLMClient

ConfigSpec == ConfigInit /\ [][ConfigNext]_vars

(***************************************************************************)
(* The pipeline calls: aiEnrichmentStep called on a context, runPipeline   *)
(* called on a raw text (pipeline.ts), and POST /api/enrich, which         *)
(* validates the request and calls runPipeline (app.ts:42-89).  One call   *)
(* is followed from its start to its return or throw.                      *)
(***************************************************************************)
PipeInputs == {"", "hi  there ", "Drop \n Table"}

\* "" is an intent level left out by the caller.
IntentInputs == IntentLevels \cup {"", "unknown"}

\* The intent levels tried on the inputs that reach the backend; the inputs
\* that are refused are tried with every intent level.
StreamedIntents == {"", "academic", "unknown"}

\* ChatRequestSchema (shared/src/index.ts:11-15): a message of 1 to 8000
\* characters, the limit scaled as in normalizeStep, and a known or absent
\* intent level.
ChatRequestValid(message, intentLevel) ==
    /\ Len(message) >= 1
    /\ Len(message) <= MaxMessageLen
    /\ intentLevel \in IntentLevels \cup {""}

\* The loop body of chat with the += replaced by an assignment.
chatAppendOverwriting(result, out) ==
    IF out = <<>> THEN result ELSE out[Len(out)]

\* result += chunk, for each chunk of out in turn (the loop body of chat).
chatAppend(result, out) == result \o concatAll(out)

\* chat, run with the step r of its generator: it appends the chunks,
\* returns result when the generator returns and throws what it throws.
chat(ch, r) ==
    [status |-> r.status, result |-> chatAppend(ch.result, r.out), error |-> r.error]

\* aiEnrichmentStep returned text: what runPipeline and the endpoint make of it.
returnFrom(k, text) ==
    LET messages == << [role |-> "assistant", content |-> text] >>
    IN  [k EXCEPT
           !.state = "returned",
           !.enrichedText = text,
           !.messages = IF k.entry = "aiEnrichmentStep" THEN <<>> ELSE messages,
           !.response =
               IF k.entry = "/api/enrich"
               THEN [status |-> 200,
                     enrichedPrompt |-> formatEnrichedPrompt(messages),
                     metadata |-> [language |-> k.c.language, intent |-> k.c.intent,
                                   safetyFlags |-> k.c.safetyFlags]]
               ELSE NoResponse]

\* aiEnrichmentStep threw err: runPipeline lets it pass; the endpoint answers
\* nothing to an AbortError and 500 to any other error.
throwFrom(k, err) ==
    [k EXCEPT
       !.state = "threw",
       !.error = err,
       !.response =
           IF k.entry = "/api/enrich" /\ err.name # "AbortError"
           THEN [status |-> 500, error |-> "Enrichment failed"]
           ELSE NoResponse]

\* The try of aiEnrichmentStep with an error of chat returning the text
\* chat had gathered.
chatStepKeepingPartial(k, r) ==
    LET ch == chat(k.chat, r)
        k1 == [k EXCEPT !.gen = r.gen, !.chat = ch, !.yielded = k.yielded \o r.out,
                        !.streamStatus = r.status, !.streamError = r.error]
    IN  IF ch.status = "suspended" THEN [k1 EXCEPT !.state = "chat"]
        ELSE IF ch.status = "returned" THEN returnFrom(k1, ch.result)
        ELSE IF ch.error.name = "AbortError" THEN throwFrom(k1, ch.error)
        ELSE returnFrom(k1, ch.result)

\* The try of aiEnrichmentStep without the AbortError test of its catch.
chatStepSwallowingAbort(k, r) ==
    LET ch == chat(k.chat, r)
        k1 == [k EXCEPT !.gen = r.gen, !.chat = ch, !.yielded = k.yielded \o r.out,
                        !.streamStatus = r.status, !.streamError = r.error]
    IN  IF ch.status = "suspended" THEN [k1 EXCEPT !.state = "chat"]
        ELSE IF ch.status = "returned" THEN returnFrom(k1, ch.result)
        ELSE returnFrom(k1, k1.c.userMessage)

\* The try of aiEnrichmentStep (pipeline.ts:111-121) around the call of
\* chat, run with the step r of the generator: the text chat returns is
\* returned; an AbortError is thrown again; any other error returns the
\* context's userMessage.  yielded, streamStatus and streamError record what
\* the generator did.
chatStep(k, r) ==
    LET ch == chat(k.chat, r)
        k1 == [k EXCEPT !.gen = r.gen, !.chat = ch, !.yielded = k.yielded \o r.out,
                        !.streamStatus = r.status, !.streamError = r.error]
    IN  IF ch.status = "suspended" THEN [k1 EXCEPT !.state = "chat"]
        ELSE IF ch.status = "returned" THEN returnFrom(k1, ch.result)
        ELSE IF ch.error.name = "AbortError" THEN throwFrom(k1, ch.error)
        ELSE returnFrom(k1, k1.c.userMessage)

\* aiEnrichmentStep testing for more than one flag.
aiEnrichmentStepLateRefusal(k, c, e) ==
    LET k1 == [k EXCEPT !.c = c]
    IN  IF Len(c.safetyFlags) > 1 THEN returnFrom(k1, RefusalText)
        ELSE chatStep([k1 EXCEPT !.backendCalls = k.backendCalls + 1,
                                 !.sent = enrichmentMessages(c)],
                      streamStart(createLLMClient(e), enrichmentMessages(c)))

\* aiEnrichmentStep(c, signal) up to its first await; sent keeps the messages
\* it passes to the backend.
aiEnrichmentStep(k, c, e) ==
    LET k1 == [k EXCEPT !.c = c]
    IN  IF Len(c.safetyFlags) > 0 THEN returnFrom(k1, RefusalText)
        ELSE chatStep([k1 EXCEPT !.backendCalls = k.backendCalls + 1,
                                 !.sent = enrichmentMessages(c)],
                      streamStart(createLLMClient(e), enrichmentMessages(c)))

\* runPipeline with the safety screen before the normalization.
runPipelineScreeningFirst(k, rawMessage, intentLevel, e) ==
    LET c0 == NewContext(rawMessage,
                         IF intentLevel = "" THEN "casual" ELSE intentLevel, <<>>)
        c1 == safetyCheckStep(c0)
        c2 == normalizeStep(c1)
    IN  aiEnrichmentStep([k EXCEPT !.rawMessage = rawMessage], c2, e)

\* runPipeline(rawMessage, sessionId, intentLevel, signal) up to its first await;
\* rawMessage keeps the text it was called on.
runPipeline(k, rawMessage, intentLevel, e) ==
    LET c0 == NewContext(rawMessage,
                         IF intentLevel = "" THEN "casual" ELSE intentLevel, <<>>)
        c1 == normalizeStep(c0)
        c2 == safetyCheckStep(c1)
    IN  aiEnrichmentStep([k EXCEPT !.rawMessage = rawMessage], c2, e)

\* A caller calls aiEnrichmentStep on a context of its own.
CallAiEnrichmentStep ==
    /\ call.state = "idle"
    /\ \E m \in PipeInputs, i \in IntentInputs,
          f \in {<<>>, <<"unsafe_keyword_detected">>, <<"flagged_by_caller">>} :
           /\ f = <<>> => i \in StreamedIntents
           /\ call' = aiEnrichmentStep([call EXCEPT !.entry = "aiEnrichmentStep"],
                                    NewContext(m, i, f), env)
    /\ UNCHANGED <<ui, stepVars, env, chatVars>>

\* A caller calls runPipeline on a raw text.
CallRunPipeline ==
    /\ call.state = "idle"
    /\ \E m \in PipeInputs, i \in IntentInputs :
           /\ safetyCheckStep(NewContext(m, i, <<>>)).safetyFlags = <<>>
                  => i \in StreamedIntents
           /\ call' = runPipeline([call EXCEPT !.entry = "runPipeline"], m, i, env)
    /\ UNCHANGED <<ui, stepVars, env, chatVars>>

\* POST /api/enrich: 400 for an invalid body, else runPipeline.
PostEnrich ==
    /\ call.state = "idle"
    /\ \E m \in PipeInputs, i \in IntentInputs :
           /\ safetyCheckStep(NewContext(m, i, <<>>)).safetyFlags = <<>>
                  => i \in StreamedIntents \cup {"concise"}
           /\ call' = IF ChatRequestValid(m, i)
                   THEN runPipeline([call EXCEPT !.entry = "/api/enrich"], m, i, env)
                   ELSE [call EXCEPT !.entry = "/api/enrich", !.state = "rejected",
                                     !.response = [status |-> 400,
                                                   error |-> "Invalid request"]]
    /\ UNCHANGED <<ui, stepVars, env, chatVars>>

\* The awaited timer, fetch or read of the call's generator completes.
PipeResume ==
    /\ call.state = "chat"
    /\ \E ev \in streamEvents(call.gen, call.aborted) :
           call' = chatStep(call, streamResume(call.gen, call.aborted, ev))
    /\ UNCHANGED <<ui, stepVars, env, chatVars>>

\* The caller aborts the signal (for the endpoint: the response closes);
\* abortedAfter keeps how many fragments the generator had yielded by then.
PipeAbort ==
    /\ call.state = "chat"
    /\ ~call.aborted
    /\ call' = [call EXCEPT !.aborted = TRUE, !.abortedAfter = Len(call.yielded)]
    /\ UNCHANGED <<ui, stepVars, env, chatVars>>

PipeInit ==
    /\ env \in Envs
    /\ call = IdleCall
    /\ ctx = NewContext("", "casual", <<>>)
    /\ lastCall = NoCall
    /\ ui = IdleUi
    /\ sessionStore = <<>>
    /\ execs = <<>>

PipeNext ==
    \/ CallAiEnrichmentStep
    \/ CallRunPipeline
    \/ PostEnrich
    \/ PipeResume
    \/ PipeAbort

PipeSpec == PipeInit /\ [][PipeNext]_vars

\* The text the rewrite stage is called on with each intent level.
IntentProbe == "hi  there "

\* A caller calls aiEnrichmentStep or runPipeline with an intent level, a
\* known one, none or an unknown one.
CallWithIntent ==
    /\ call.state = "idle"
    /\ \E i \in IntentInputs, direct \in BOOLEAN :
           call' = IF direct
                   THEN aiEnrichmentStep([call EXCEPT !.entry = "aiEnrichmentStep"],
                                         NewContext(IntentProbe, i, <<>>), env)
                   ELSE runPipeline([call EXCEPT !.entry = "runPipeline"],
                                    IntentProbe, i, env)
    /\ UNCHANGED <<ui, stepVars, env, chatVars>>

IntentNext ==
    \/ CallWithIntent
    \/ PipeResume
    \/ PipeAbort

IntentSpec == PipeInit /\ [][IntentNext]_vars

(***************************************************************************)
(* runPipeline on raw texts built from words of the denylist, white space  *)
(* and filler, with the local-inference backend configured.                *)
(***************************************************************************)
ScreenPieces == {" ", " \n ", "Drop", "Table", "Drop Table", "a", "hello world"}

RECURSIVE ScreenTexts(_)
ScreenTexts(n) ==
    IF n = 0 THEN {""}
    ELSE ScreenTexts(n - 1) \cup {t \o p : t \in ScreenTexts(n - 1), p \in ScreenPieces}

ScreenInputs == ScreenTexts(MaxPieces)

ScreenEnv == [USE_MOCK_LLM |-> "", LLM_PROVIDER |-> "ollama", LLM_API_KEY |-> "sk-test"]

\* A caller calls runPipeline on a raw text.
CallRunPipelineOnText ==
    /\ call.state = "idle"
    /\ \E m \in ScreenInputs :
           call' = runPipeline([call EXCEPT !.entry = "runPipeline"], m, "casual", env)
    /\ UNCHANGED <<ui, stepVars, env, chatVars>>

ScreenInit ==
    /\ env = ScreenEnv
    /\ call = IdleCall
    /\ ctx = NewContext("", "casual", <<>>)
    /\ lastCall = NoCall
    /\ ui = IdleUi
    /\ sessionStore = <<>>
    /\ execs = <<>>

ScreenNext ==
    \/ CallRunPipelineOnText
    \/ PipeResume
    \/ PipeAbort

ScreenSpec == ScreenInit /\ [][ScreenNext]_vars

(***************************************************************************)
(* streamChat of the two network backends, called by itself on a list of   *)
(* one message and never cancelled: the fetch answers 200 with one of the  *)
(* bodies, and each read brings any number of the characters that are left *)
(* of it.  body keeps the response as the network sent it.                 *)
(***************************************************************************)
\* One configuration for each network backend.
StreamEnvs ==
    {e \in Envs : e.LLM_PROVIDER # "" /\ createLLMClient(e).class # "MockLLMClient"}

\* The generator's step r, as a caller iterating streamChat records it.
streamStep(k, r) ==
    [k EXCEPT !.gen = r.gen, !.yielded = k.yielded \o r.out,
              !.streamStatus = r.status, !.streamError = r.error,
              !.state = IF r.status = "suspended" THEN "chat"
                        ELSE IF r.status = "returned" THEN "returned" ELSE "threw"]

OkResponse(b) ==
    [type |-> "response", ok |-> TRUE, status |-> "200", statusText |-> "OK",
     hasBody |-> TRUE, body |-> b]

\* A caller calls streamChat of the configured client.
CallStreamChat ==
    /\ call.state = "idle"
    /\ call' = streamStep([call EXCEPT !.entry = "streamChat"],
                          streamStart(createLLMClient(env),
                                      <<[role |-> "user", content |-> "Hello"]>>))
    /\ UNCHANGED <<ui, stepVars, env, chatVars>>

\* The fetch resolves with a response.
StreamFetched ==
    /\ call.state = "chat"
    /\ call.gen.pc = "fetch"
    /\ \E b \in StreamBodies(call.gen.class) :
           call' = streamStep([call EXCEPT !.body = b],
                              streamResume(call.gen, FALSE, OkResponse(b)))
    /\ UNCHANGED <<ui, stepVars, env, chatVars>>

\* A read resolves with some of the body, or with its end.
StreamRead ==
    /\ call.state = "chat"
    /\ call.gen.pc = "read"
    /\ \E ev \in IF call.gen.wire = "" THEN {[type |-> "end"]}
                 ELSE {[type |-> "chunk", n |-> k] : k \in 1..Len(call.gen.wire)} :
           call' = streamStep(call, streamResume(call.gen, FALSE, ev))
    /\ UNCHANGED <<ui, stepVars, env, chatVars>>

StreamInit ==
    /\ env \in StreamEnvs
    /\ call = IdleCall
    /\ ctx = NewContext("", "casual", <<>>)
    /\ lastCall = NoCall
    /\ ui = IdleUi
    /\ sessionStore = <<>>
    /\ execs = <<>>

StreamNext ==
    \/ CallStreamChat
    \/ StreamFetched
    \/ StreamRead

StreamSpec == StreamInit /\ [][StreamNext]_vars

(***************************************************************************)
(* app.ts: POST /api/chat and the session store.                           *)
(*                                                                         *)
(* A request is handled in steps of the event loop: ChatStart runs the     *)
(* handler to the first await of the client's generator, ChatResume runs   *)
(* it from one await to the next (relaying what the generator yields) and  *)
(* to the end of the handler when the generator returns or throws.         *)
(***************************************************************************)
Execs == 1..MaxExec

\* The session ids, in the order in which requests first name them.
SessionOrder == <<"s1", "s2">>

SessionIds == Range(SessionOrder)

\* A request names a session of the store or the next id not yet named.
UsableSessionIds(store) ==
    {SessionOrder[n] : n \in {m \in DOMAIN SessionOrder :
                                 \A j \in 1..(m - 1) : SessionOrder[j] \in DOMAIN store}}

Prompts == {"Hello", "a b"}

IdleExec ==
    [ state |-> "idle", sessionId |-> "", finalPrompt |-> "", useSystemRole |-> FALSE,
      messagesToSend |-> <<>>, historyBefore |-> <<>>, gen |-> NoGen,
      aborted |-> FALSE, frames |-> <<>>, fullResponse |-> "", yielded |-> <<>>,
      streamStatus |-> "none", streamError |-> NoError, status |-> 0,
      contentType |-> "", ended |-> FALSE, backendCalls |-> 0 ]

ClosedExec == [IdleExec EXCEPT !.state = "closed"]

\* The payloads of the frames written to the response: the handler writes
\* "data: " \o JSON.stringify(payload) \o "\n\n", and "data: [DONE]\n\n".
ContentFrame(chunk) == [content |-> chunk]

ErrorFrame(text) == [error |-> text]

DoneFrame == [done |-> TRUE]

ContentFrames(chunks) == [n \in 1..Len(chunks) |-> ContentFrame(chunks[n])]

\* FinalChatRequestSchema (shared/src/index.ts:24-28).
FinalChatRequestValid(finalPrompt, sessionId) ==
    Len(finalPrompt) >= 1 /\ Len(sessionId) >= 1

\* The handler's loop with the DONE frame written behind the try, where it
\* also follows an error frame.
chatLoopDoneAfterError(x, r, store) ==
    LET full == x.fullResponse \o concatAll(r.out)
        x1 == [x EXCEPT !.gen = r.gen, !.yielded = x.yielded \o r.out,
                        !.streamStatus = r.status, !.streamError = r.error,
                        !.frames = x.frames \o ContentFrames(r.out),
                        !.fullResponse = full]
    IN  IF r.status = "suspended"
        THEN [exec |-> [x1 EXCEPT !.state = "streaming"], store |-> store]
        ELSE IF r.status = "returned"
        THEN [exec  |-> [x1 EXCEPT !.state = "completed", !.ended = TRUE,
                                   !.frames = Append(x1.frames, DoneFrame)],
              store |-> [store EXCEPT ![x.sessionId] =
                            @ \o << [role |-> "user", content |-> x.finalPrompt],
                                    [role |-> "assistant", content |-> full] >>]]
        ELSE IF r.error.name = "AbortError"
        THEN [exec  |-> [x1 EXCEPT !.state = "aborted", !.ended = TRUE,
                                   !.frames = x1.frames \o <<ErrorFrame("Stream aborted"),
                                                             DoneFrame>>],
              store |-> store]
        ELSE [exec  |-> [x1 EXCEPT !.state = "failed", !.ended = TRUE,
                                   !.frames = x1.frames \o <<ErrorFrame("Stream interrupted"),
                                                             DoneFrame>>],
              store |-> store]

\* The handler's loop storing the list it sent and the answer in place of
\* the session's history.
chatLoopReplacingHistory(x, r, store) ==
    LET full == x.fullResponse \o concatAll(r.out)
        x1 == [x EXCEPT !.gen = r.gen, !.yielded = x.yielded \o r.out,
                        !.streamStatus = r.status, !.streamError = r.error,
                        !.frames = x.frames \o ContentFrames(r.out),
                        !.fullResponse = full]
    IN  IF r.status = "suspended"
        THEN [exec |-> [x1 EXCEPT !.state = "streaming"], store |-> store]
        ELSE IF r.status = "returned"
        THEN [exec  |-> [x1 EXCEPT !.state = "completed", !.ended = TRUE,
                                   !.frames = Append(x1.frames, DoneFrame)],
              store |-> [store EXCEPT ![x.sessionId] =
                            x.historyBefore
                              \o << [role |-> "user", content |-> x.finalPrompt],
                                    [role |-> "assistant", content |-> full] >>]]
        ELSE IF r.error.name = "AbortError"
        THEN [exec  |-> [x1 EXCEPT !.state = "aborted", !.ended = TRUE,
                                   !.frames = Append(x1.frames, ErrorFrame("Stream aborted"))],
              store |-> store]
        ELSE [exec  |-> [x1 EXCEPT !.state = "failed", !.ended = TRUE,
                                   !.frames = Append(x1.frames,
                                                     ErrorFrame("Stream interrupted"))],
              store |-> store]

\* The handler's loop without the AbortError test of its catch.
chatLoopFailingOnAbort(x, r, store) ==
    LET full == x.fullResponse \o concatAll(r.out)
        x1 == [x EXCEPT !.gen = r.gen, !.yielded = x.yielded \o r.out,
                        !.streamStatus = r.status, !.streamError = r.error,
                        !.frames = x.frames \o ContentFrames(r.out),
                        !.fullResponse = full]
    IN  IF r.status = "suspended"
        THEN [exec |-> [x1 EXCEPT !.state = "streaming"], store |-> store]
        ELSE IF r.status = "returned"
        THEN [exec  |-> [x1 EXCEPT !.state = "completed", !.ended = TRUE,
                                   !.frames = Append(x1.frames, DoneFrame)],
              store |-> [store EXCEPT ![x.sessionId] =
                            @ \o << [role |-> "user", content |-> x.finalPrompt],
                                    [role |-> "assistant", content |-> full] >>]]
        ELSE IF r.error.name = "AbortError"
        THEN [exec  |-> [x1 EXCEPT !.state = "failed", !.ended = TRUE,
                                   !.frames = Append(x1.frames,
                                                     ErrorFrame("Stream interrupted"))],
              store |-> store]
        ELSE [exec  |-> [x1 EXCEPT !.state = "failed", !.ended = TRUE,
                                   !.frames = Append(x1.frames,
                                                     ErrorFrame("Stream interrupted"))],
              store |-> store]

\* The handler's loop with the return of the AbortError case leaving
\* before the response is ended.
chatLoopNotEndingOnAbort(x, r, store) ==
    LET full == x.fullResponse \o concatAll(r.out)
        x1 == [x EXCEPT !.gen = r.gen, !.yielded = x.yielded \o r.out,
                        !.streamStatus = r.status, !.streamError = r.error,
                        !.frames = x.frames \o ContentFrames(r.out),
                        !.fullResponse = full]
    IN  IF r.status = "suspended"
        THEN [exec |-> [x1 EXCEPT !.state = "streaming"], store |-> store]
        ELSE IF r.status = "returned"
        THEN [exec  |-> [x1 EXCEPT !.state = "completed", !.ended = TRUE,
                                   !.frames = Append(x1.frames, DoneFrame)],
              store |-> [store EXCEPT ![x.sessionId] =
                            @ \o << [role |-> "user", content |-> x.finalPrompt],
                                    [role |-> "assistant", content |-> full] >>]]
        ELSE IF r.error.name = "AbortError"
        THEN [exec  |-> [x1 EXCEPT !.state = "aborted", !.ended = FALSE,
                                   !.frames = Append(x1.frames, ErrorFrame("Stream aborted"))],
              store |-> store]
        ELSE [exec  |-> [x1 EXCEPT !.state = "failed", !.ended = TRUE,
                                   !.frames = Append(x1.frames,
                                                     ErrorFrame("Stream interrupted"))],
              store |-> store]

\* The handler's loop with the role of the message sent, not "user", persisted.
chatLoopPersistingSentRole(x, r, store) ==
    LET full == x.fullResponse \o concatAll(r.out)
        x1 == [x EXCEPT !.gen = r.gen, !.yielded = x.yielded \o r.out,
                        !.streamStatus = r.status, !.streamError = r.error,
                        !.frames = x.frames \o ContentFrames(r.out),
                        !.fullResponse = full]
    IN  IF r.status = "suspended"
        THEN [exec |-> [x1 EXCEPT !.state = "streaming"], store |-> store]
        ELSE IF r.status = "returned"
        THEN [exec  |-> [x1 EXCEPT !.state = "completed", !.ended = TRUE,
                                   !.frames = Append(x1.frames, DoneFrame)],
              store |-> [store EXCEPT ![x.sessionId] =
                            @ \o << x.messagesToSend[Len(x.messagesToSend)],
                                    [role |-> "assistant", content |-> full] >>]]
        ELSE IF r.error.name = "AbortError"
        THEN [exec  |-> [x1 EXCEPT !.state = "aborted", !.ended = TRUE,
                                   !.frames = Append(x1.frames, ErrorFrame("Stream aborted"))],
              store |-> store]
        ELSE [exec  |-> [x1 EXCEPT !.state = "failed", !.ended = TRUE,
                                   !.frames = Append(x1.frames,
                                                     ErrorFrame("Stream interrupted"))],
              store |-> store]

\* The handler's loop with the two pushes moved behind the try, where they
\* also run after a failure.
chatLoopPersistingOnError(x, r, store) ==
    LET full == x.fullResponse \o concatAll(r.out)
        x1 == [x EXCEPT !.gen = r.gen, !.yielded = x.yielded \o r.out,
                        !.streamStatus = r.status, !.streamError = r.error,
                        !.frames = x.frames \o ContentFrames(r.out),
                        !.fullResponse = full]
        pushed == [store EXCEPT ![x.sessionId] =
                      @ \o << [role |-> "user", content |-> x.finalPrompt],
                              [role |-> "assistant", content |-> full] >>]
    IN  IF r.status = "suspended"
        THEN [exec |-> [x1 EXCEPT !.state = "streaming"], store |-> store]
        ELSE IF r.status = "returned"
        THEN [exec  |-> [x1 EXCEPT !.state = "completed", !.ended = TRUE,
                                   !.frames = Append(x1.frames, DoneFrame)],
              store |-> pushed]
        ELSE IF r.error.name = "AbortError"
        THEN [exec  |-> [x1 EXCEPT !.state = "aborted", !.ended = TRUE,
                                   !.frames = Append(x1.frames, ErrorFrame("Stream aborted"))],
              store |-> store]
        ELSE [exec  |-> [x1 EXCEPT !.state = "failed", !.ended = TRUE,
                                   !.frames = Append(x1.frames,
                                                     ErrorFrame("Stream interrupted"))],
              store |-> pushed]

\* The handler pushing the user's message before it streams and the
\* assistant's when the stream has ended.
chatLoopPushingUserFirst(x, r, store) ==
    LET full == x.fullResponse \o concatAll(r.out)
        x1 == [x EXCEPT !.gen = r.gen, !.yielded = x.yielded \o r.out,
                        !.streamStatus = r.status, !.streamError = r.error,
                        !.frames = x.frames \o ContentFrames(r.out),
                        !.fullResponse = full]
        store1 == IF x.state = "idle"
                  THEN [store EXCEPT ![x.sessionId] =
                           Append(@, [role |-> "user", content |-> x.finalPrompt])]
                  ELSE store
    IN  IF r.status = "suspended"
        THEN [exec |-> [x1 EXCEPT !.state = "streaming"], store |-> store1]
        ELSE IF r.status = "returned"
        THEN [exec  |-> [x1 EXCEPT !.state = "completed", !.ended = TRUE,
                                   !.frames = Append(x1.frames, DoneFrame)],
              store |-> [store1 EXCEPT ![x.sessionId] =
                            Append(@, [role |-> "assistant", content |-> full])]]
        ELSE IF r.error.name = "AbortError"
        THEN [exec  |-> [x1 EXCEPT !.state = "aborted", !.ended = TRUE,
                                   !.frames = Append(x1.frames, ErrorFrame("Stream aborted"))],
              store |-> store1]
        ELSE [exec  |-> [x1 EXCEPT !.state = "failed", !.ended = TRUE,
                                   !.frames = Append(x1.frames,
                                                     ErrorFrame("Stream interrupted"))],
              store |-> store1]

\* The handler calling streamChat once more after an error that is no abort.
chatLoopRetrying(x, r, store) ==
    LET full == x.fullResponse \o concatAll(r.out)
        x1 == [x EXCEPT !.gen = r.gen, !.yielded = x.yielded \o r.out,
                        !.streamStatus = r.status, !.streamError = r.error,
                        !.frames = x.frames \o ContentFrames(r.out),
                        !.fullResponse = full]
    IN  IF r.status = "suspended"
        THEN [exec |-> [x1 EXCEPT !.state = "streaming"], store |-> store]
        ELSE IF r.status = "returned"
        THEN [exec  |-> [x1 EXCEPT !.state = "completed", !.ended = TRUE,
                                   !.frames = Append(x1.frames, DoneFrame)],
              store |-> [store EXCEPT ![x.sessionId] =
                            @ \o << [role |-> "user", content |-> x.finalPrompt],
                                    [role |-> "assistant", content |-> full] >>]]
        ELSE IF r.error.name = "AbortError"
        THEN [exec  |-> [x1 EXCEPT !.state = "aborted", !.ended = TRUE,
                                   !.frames = Append(x1.frames, ErrorFrame("Stream aborted"))],
              store |-> store]
        ELSE IF x.backendCalls < 2
        THEN [exec  |-> [x1 EXCEPT !.state = "streaming",
                                   !.backendCalls = x.backendCalls + 1,
                                   !.gen = streamStart([class |-> r.gen.class,
                                                        apiKey |-> "sk-test"],
                                                       x.messagesToSend).gen],
              store |-> store]
        ELSE [exec  |-> [x1 EXCEPT !.state = "failed", !.ended = TRUE,
                                   !.frames = Append(x1.frames,
                                                     ErrorFrame("Stream interrupted"))],
              store |-> store]

\* app.ts:143-166, run with the step r of the generator.  Each chunk is
\* written as a content frame and appended to fullResponse.  When the
\* generator returns, the DONE frame is written and the two messages are
\* pushed; when it throws, the frame of an abort or of an interruption is
\* written; in each case the response is ended.  yielded, streamStatus and
\* streamError record what the generator did.
chatLoop(x, r, store) ==
    LET full == x.fullResponse \o concatAll(r.out)
        x1 == [x EXCEPT !.gen = r.gen, !.yielded = x.yielded \o r.out,
                        !.streamStatus = r.status, !.streamError = r.error,
                        !.frames = x.frames \o ContentFrames(r.out),
                        !.fullResponse = full]
    IN  IF r.status = "suspended"
        THEN [exec |-> [x1 EXCEPT !.state = "streaming"], store |-> store]
        ELSE IF r.status = "returned"
        THEN [exec  |-> [x1 EXCEPT !.state = "completed", !.ended = TRUE,
                                   !.frames = Append(x1.frames, DoneFrame)],
              store |-> [store EXCEPT ![x.sessionId] =
                            @ \o << [role |-> "user", content |-> x.finalPrompt],
                                    [role |-> "assistant", content |-> full] >>]]
        ELSE IF r.error.name = "AbortError"
        THEN [exec  |-> [x1 EXCEPT !.state = "aborted", !.ended = TRUE,
                                   !.frames = Append(x1.frames, ErrorFrame("Stream aborted"))],
              store |-> store]
        ELSE [exec  |-> [x1 EXCEPT !.state = "failed", !.ended = TRUE,
                                   !.frames = Append(x1.frames,
                                                     ErrorFrame("Stream interrupted"))],
              store |-> store]

\* The handler giving the session an empty history at every request.
chatStartResettingSession(x, finalPrompt, sessionId, useSystemRole, e, store) ==
    IF ~FinalChatRequestValid(finalPrompt, sessionId)
    THEN [exec  |-> [x EXCEPT !.state = "rejected", !.finalPrompt = finalPrompt,
                              !.sessionId = sessionId, !.status = 400,
                              !.contentType = "application/json", !.ended = TRUE],
          store |-> store]
    ELSE LET store1 == [s \in DOMAIN store \cup {sessionId} |->
                           IF s = sessionId THEN <<>> ELSE store[s]]
             currentRole    == IF useSystemRole THEN "system" ELSE "user"
             currentMessage == [role |-> currentRole, content |-> finalPrompt]
             messagesToSend == store1[sessionId] \o <<currentMessage>>
             x1 == [x EXCEPT !.sessionId = sessionId, !.finalPrompt = finalPrompt,
                             !.useSystemRole = useSystemRole,
                             !.messagesToSend = messagesToSend,
                             !.historyBefore = store1[sessionId],
                             !.status = 200, !.contentType = "text/event-stream",
                             !.backendCalls = x.backendCalls + 1]
         IN  chatLoop(x1, streamStart(createLLMClient(e), messagesToSend), store1)

\* The handler sending the new message alone.
chatStartWithoutHistory(x, finalPrompt, sessionId, useSystemRole, e, store) ==
    IF ~FinalChatRequestValid(finalPrompt, sessionId)
    THEN [exec  |-> [x EXCEPT !.state = "rejected", !.finalPrompt = finalPrompt,
                              !.sessionId = sessionId, !.status = 400,
                              !.contentType = "application/json", !.ended = TRUE],
          store |-> store]
    ELSE LET store1 == IF sessionId \in DOMAIN store THEN store
                       ELSE [s \in DOMAIN store \cup {sessionId} |->
                                IF s = sessionId THEN <<>> ELSE store[s]]
             currentRole    == IF useSystemRole THEN "system" ELSE "user"
             currentMessage == [role |-> currentRole, content |-> finalPrompt]
             messagesToSend == <<currentMessage>>
             x1 == [x EXCEPT !.sessionId = sessionId, !.finalPrompt = finalPrompt,
                             !.useSystemRole = useSystemRole,
                             !.messagesToSend = messagesToSend,
                             !.historyBefore = store1[sessionId],
                             !.status = 200, !.contentType = "text/event-stream",
                             !.backendCalls = x.backendCalls + 1]
         IN  chatLoop(x1, streamStart(createLLMClient(e), messagesToSend), store1)

\* The handler creating the session's entry before it validates the body.
chatStartCreatingSessionFirst(x, finalPrompt, sessionId, useSystemRole, e, store) ==
    IF ~FinalChatRequestValid(finalPrompt, sessionId)
    THEN [exec  |-> [x EXCEPT !.state = "rejected", !.finalPrompt = finalPrompt,
                              !.sessionId = sessionId, !.status = 400,
                              !.contentType = "application/json", !.ended = TRUE],
          store |-> IF sessionId \in DOMAIN store THEN store
                    ELSE [s \in DOMAIN store \cup {sessionId} |->
                             IF s = sessionId THEN <<>> ELSE store[s]]]
    ELSE LET store1 == IF sessionId \in DOMAIN store THEN store
                       ELSE [s \in DOMAIN store \cup {sessionId} |->
                                IF s = sessionId THEN <<>> ELSE store[s]]
             currentRole    == IF useSystemRole THEN "system" ELSE "user"
             currentMessage == [role |-> currentRole, content |-> finalPrompt]
             messagesToSend == store1[sessionId] \o <<currentMessage>>
             x1 == [x EXCEPT !.sessionId = sessionId, !.finalPrompt = finalPrompt,
                             !.useSystemRole = useSystemRole,
                             !.messagesToSend = messagesToSend,
                             !.historyBefore = store1[sessionId],
                             !.status = 200, !.contentType = "text/event-stream",
                             !.backendCalls = x.backendCalls + 1]
         IN  chatLoop(x1, streamStart(createLLMClient(e), messagesToSend), store1)

\* app.ts:94-145: validation, the session's creation, the message list, the
\* headers, the client and the first next() of its generator.  A sessionId
\* the body leaves out is the empty text.  finalPrompt and sessionId keep the
\* request's body, status and contentType what the response was given.
chatStart(x, finalPrompt, sessionId, useSystemRole, e, store) ==
    IF ~FinalChatRequestValid(finalPrompt, sessionId)
    THEN [exec  |-> [x EXCEPT !.state = "rejected", !.finalPrompt = finalPrompt,
                              !.sessionId = sessionId, !.status = 400,
                              !.contentType = "application/json", !.ended = TRUE],
          store |-> store]
    ELSE LET store1 == IF sessionId \in DOMAIN store THEN store
                       ELSE [s \in DOMAIN store \cup {sessionId} |->
                                IF s = sessionId THEN <<>> ELSE store[s]]
             currentRole    == IF useSystemRole THEN "system" ELSE "user"
             currentMessage == [role |-> currentRole, content |-> finalPrompt]
             messagesToSend == store1[sessionId] \o <<currentMessage>>
             x1 == [x EXCEPT !.sessionId = sessionId, !.finalPrompt = finalPrompt,
                             !.useSystemRole = useSystemRole,
                             !.messagesToSend = messagesToSend,
                             !.historyBefore = store1[sessionId],
                             !.status = 200, !.contentType = "text/event-stream",
                             !.backendCalls = x.backendCalls + 1]
         IN  chatLoop(x1, streamStart(createLLMClient(e), messagesToSend), store1)

\* No request is being handled: the client sends one request at a time.
NoneInFlight == \A e \in Execs : execs[e].state \in {"idle", "closed"}

\* POST /api/chat arrives.
ChatStart(e) ==
    /\ execs[e].state = "idle"
    /\ \A d \in 1..(e - 1) : execs[d].state # "idle"
    /\ NoneInFlight
    /\ \E p \in Prompts \cup {""}, s \in UsableSessionIds(sessionStore) \cup {""},
          u \in BOOLEAN :
           LET n == chatStart(execs[e], p, s, u, env, sessionStore)
           IN  /\ execs' = [execs EXCEPT ![e] = n.exec]
               /\ sessionStore' = n.store
    /\ UNCHANGED <<ui, stepVars, env, call>>

\* The awaited timer, fetch or read of the request's generator completes.
ChatResume(e) ==
    /\ execs[e].state = "streaming"
    /\ \E ev \in streamEvents(execs[e].gen, execs[e].aborted) :
           LET n == chatLoop(execs[e],
                             streamResume(execs[e].gen, execs[e].aborted, ev),
                             sessionStore)
           IN  /\ execs' = [execs EXCEPT ![e] = n.exec]
               /\ sessionStore' = n.store
    /\ UNCHANGED <<ui, stepVars, env, call>>

\* The response closes while the request is handled: the listener of
\* app.ts:136-137 aborts the signal.
ClientClose(e) ==
    /\ execs[e].state = "streaming"
    /\ ~execs[e].aborted
    /\ execs' = [execs EXCEPT ![e].aborted = TRUE]
    /\ UNCHANGED <<ui, stepVars, env, call, sessionStore>>

\* The handler has returned; nothing of the request is kept.
HandlerDone(e) ==
    /\ execs[e].state \in {"completed", "aborted", "failed", "rejected"}
    /\ execs' = [execs EXCEPT ![e] = ClosedExec]
    /\ UNCHANGED <<ui, stepVars, env, call, sessionStore>>

Init ==
    /\ env \in Envs
    /\ sessionStore = <<>>
    /\ execs = [e \in Execs |-> IdleExec]
    /\ call = IdleCall
    /\ ctx = NewContext("", "casual", <<>>)
    /\ lastCall = NoCall
    /\ ui = IdleUi

Next ==
    \E e \in Execs :
        \/ ChatStart(e)
        \/ ChatResume(e)
        \/ ClientClose(e)
        \/ HandlerDone(e)

Spec == Init /\ [][Next]_vars

\* The event loop runs a handler whose awaited timer, fetch or read has
\* settled; timers fire, and a fetch or a read of a backend that answers,
\* fails or is aborted settles.
\* One request is followed from its arrival to the return of its handler.
LiveNext ==
    \/ ChatStart(1)
    \/ ChatResume(1)
    \/ ClientClose(1)
    \/ HandlerDone(1)

LiveSpec == Init /\ [][LiveNext]_vars /\ WF_vars(ChatResume(1))

(***************************************************************************)
(* A hosted provider configured without a credential.  One call is         *)
(* followed: of streamChat on a RealLLMClient a caller constructs itself,  *)
(* of the rewrite stage, or one POST /api/chat.                            *)
(***************************************************************************)
KeylessEnv == [USE_MOCK_LLM |-> "", LLM_PROVIDER |-> "openai", LLM_API_KEY |-> ""]

\* new RealLLMClient(): the constructor reads LLM_API_KEY, "" when unset.
newRealLLMClient(e) == [class |-> "RealLLMClient", apiKey |-> e.LLM_API_KEY]

\* A caller constructs the hosted client and calls its streamChat.
CallHostedStreamChat ==
    /\ call.state = "idle"
    /\ call' = streamStep([call EXCEPT !.entry = "streamChat"],
                          streamStart(newRealLLMClient(env),
                                      <<[role |-> "user", content |-> "Hello"]>>))
    /\ UNCHANGED <<ui, stepVars, env, chatVars>>

KeylessInit ==
    /\ env = KeylessEnv
    /\ sessionStore = <<>>
    /\ execs = [e \in Execs |-> IdleExec]
    /\ call = IdleCall
    /\ ctx = NewContext("", "casual", <<>>)
    /\ lastCall = NoCall
    /\ ui = IdleUi

\* The call being followed is the only one made.
NoChatRequest == execs[1].state = "idle"

NoPipelineCall == call.state = "idle"

KeylessNext ==
    \/ NoChatRequest /\ CallHostedStreamChat
    \/ NoChatRequest /\ CallWithIntent
    \/ NoChatRequest /\ PipeResume
    \/ NoChatRequest /\ PipeAbort
    \/ NoPipelineCall /\ ChatStart(1)
    \/ NoPipelineCall /\ ChatResume(1)
    \/ NoPipelineCall /\ ClientClose(1)
    \/ NoPipelineCall /\ HandlerDone(1)

KeylessSpec == KeylessInit /\ [][KeylessNext]_vars

(***************************************************************************)
(* The server with every configuration.  One request, or one direct call   *)
(* of the pipeline, is followed from its arrival to its end.               *)
(***************************************************************************)
AppNext ==
    \/ NoChatRequest /\ CallAiEnrichmentStep
    \/ NoChatRequest /\ CallRunPipeline
    \/ NoChatRequest /\ PostEnrich
    \/ NoChatRequest /\ PipeResume
    \/ NoChatRequest /\ PipeAbort
    \/ NoPipelineCall /\ ChatStart(1)
    \/ NoPipelineCall /\ ChatResume(1)
    \/ NoPipelineCall /\ ClientClose(1)
    \/ NoPipelineCall /\ HandlerDone(1)

AppSpec == Init /\ [][AppNext]_vars

(***************************************************************************)
(* POST /api/chat with requests in flight together: a request may arrive   *)
(* while another one is suspended at an await of its generator, and the    *)
(* suspended handlers resume in any order (spec 5: no ordering between     *)
(* calls).                                                                 *)
(***************************************************************************)
\* The configuration of the requests in flight together: the simulated
\* backend, whose timers are the points where the handlers interleave.
ConcEnvs ==
    { [USE_MOCK_LLM |-> "true", LLM_PROVIDER |-> "ollama", LLM_API_KEY |-> "sk-test"] }

\* POST /api/chat arrives, whatever the other requests are doing.
ConcChatStart(e) ==
    /\ execs[e].state = "idle"
    /\ \A d \in 1..(e - 1) : execs[d].state # "idle"
    /\ \E p \in Prompts \cup {""}, s \in UsableSessionIds(sessionStore) \cup {""},
          u \in BOOLEAN :
           LET n == chatStart(execs[e], p, s, u, env, sessionStore)
           IN  /\ execs' = [execs EXCEPT ![e] = n.exec]
               /\ sessionStore' = n.store
    /\ UNCHANGED <<ui, stepVars, env, call>>

ConcInit ==
    /\ env \in ConcEnvs
    /\ sessionStore = <<>>
    /\ execs = [e \in Execs |-> IdleExec]
    /\ call = IdleCall
    /\ ctx = NewContext("", "casual", <<>>)
    /\ lastCall = NoCall
    /\ ui = IdleUi

ConcNext ==
    \E e \in Execs :
        \/ ConcChatStart(e)
        \/ ChatResume(e)
        \/ ClientClose(e)
        \/ HandlerDone(e)

ConcSpec == ConcInit /\ [][ConcNext]_vars

(***************************************************************************)
(* The web UI (shared/src/index.ts:61-423): the Home component.  A click   *)
(* or an edit runs its handler to the end or to its first await; UiResume  *)
(* runs a suspended handleEnrich or handleSend from the await that settled *)
(* to the next one.  The server is what the handlers see of it: the        *)
(* outcome of fetch, of response.json() and of each read of the body.      *)
(***************************************************************************)
\* What the user types into the input and into the enriched prompt.
UiInputs == {"", " ", "hi"}

UiEdits == {"", "Be kind"}

\* The intent levels the select is set to.
UiIntentLevels == {"casual", "academic"}

DoneRequest == [kind |-> "done", pc |-> "done", aborted |-> FALSE, wire |-> "",
                assistant |-> 0]

\* The answers of POST /api/enrich and of POST /api/chat as fetch delivers them.
UiEnrichResponses ==
    { [type |-> "response", ok |-> TRUE, statusText |-> "OK", hasBody |-> TRUE,
       body |-> "Rewritten"],
      [type |-> "response", ok |-> FALSE, statusText |-> "Internal Server Error",
       hasBody |-> TRUE, body |-> ""] }

UiChatBodies ==
    { "data: {\"content\":\"Hi \"}\n\ndata: {\"content\":\"you\"}\n\ndata: [DONE]\n\n",
      "data: {\"content\":\"Hi \"}\n\ndata: {\"error\":\"Stream interrupted\"}\n\n" }

UiChatResponses ==
    {[type |-> "response", ok |-> TRUE, statusText |-> "OK", hasBody |-> TRUE,
      body |-> b] : b \in UiChatBodies}
    \cup
    { [type |-> "response", ok |-> FALSE, statusText |-> "Bad Request", hasBody |-> TRUE,
       body |-> ""],
      [type |-> "response", ok |-> TRUE, statusText |-> "No Content", hasBody |-> FALSE,
       body |-> ""] }

\* The events that can settle the await of the request q.  Once its
\* controller is aborted the fetch or the read rejects.
uiEvents(q) ==
    IF q.aborted THEN {[type |-> "abort"]}
    ELSE IF q.pc = "fetch"
    THEN (IF q.kind = "enrich" THEN UiEnrichResponses ELSE UiChatResponses)
         \cup {[type |-> "networkError"]}
    ELSE IF q.pc = "json" THEN {[type |-> "json"], [type |-> "networkError"]}
    ELSE IF q.wire = "" THEN {[type |-> "end"], [type |-> "networkError"]}
    ELSE {[type |-> "chunk", n |-> k] :
              k \in {n \in 1..Len(q.wire) : n = MaxUiReadSize \/ n = Len(q.wire)}}
         \cup {[type |-> "networkError"]}

\* The disabled attributes and the conditions of the JSX.
IntentSelectDisabled == ui.phase = "streaming" \/ ui.phase = "enriching"

PanelShown == ui.enrichedPrompt # "" \/ ui.phase = "enriching" \/ ui.phase = "review"

DismissDisabled == ui.phase = "streaming" \/ ui.phase = "enriching"

EnrichedPromptDisabled == ui.phase = "streaming" \/ ui.phase = "enriching"

InputDisabled == ui.phase = "streaming" \/ ui.phase = "enriching"

\* The Stop button with the streaming phase alone.
StopShownWhileStreaming == ui.phase = "streaming"

\* The Stop button is rendered in place of Enrich, Raw and Send Enhanced.
StopShown == ui.phase = "streaming" \/ ui.phase = "enriching"

EnrichDisabled ==
    trim(ui.input) = "" \/ (ui.phase # "idle" /\ ui.phase # "stopped" /\ ui.phase # "review")

RawDisabled == trim(ui.input) = ""

EnhancedDisabled == trim(ui.enrichedPrompt) = ""

\* handleStop (index.ts:104-121).
handleStop(u) ==
    LET wasEnriching == u.phase = "enriching"
        u1 == IF u.abortControllerRef # 0
              THEN [u EXCEPT !.requests[u.abortControllerRef].aborted = TRUE,
                             !.abortControllerRef = 0]
              ELSE u
    IN  [u1 EXCEPT !.phase = "stopped",
                   !.enrichedPrompt = "",
                   !.input = IF wasEnriching THEN @ ELSE ""]

\* handleEnrich up to its fetch (index.ts:123-142).
handleEnrich(u) ==
    IF trim(u.input) = "" \/ u.phase = "enriching" \/ u.phase = "streaming" THEN u
    ELSE [u EXCEPT !.phase = "enriching",
                   !.error = "",
                   !.enrichedPrompt = "",
                   !.requests = Append(@, [kind |-> "enrich", pc |-> "fetch",
                                           aborted |-> FALSE, wire |-> "",
                                           assistant |-> 0]),
                   !.abortControllerRef = Len(u.requests) + 1]

\* handleSend up to its fetch (index.ts:166-195).
handleSend(u, useEnhanced) ==
    LET promptToSend == IF useEnhanced THEN u.enrichedPrompt ELSE u.input
    IN  IF trim(promptToSend) = "" THEN u
        ELSE [u EXCEPT !.messages = @ \o <<[role |-> "user", content |-> promptToSend],
                                           [role |-> "assistant", content |-> ""]>>,
                       !.phase = "streaming",
                       !.error = "",
                       !.requests = Append(@, [kind |-> "send", pc |-> "fetch",
                                               aborted |-> FALSE, wire |-> "",
                                               assistant |-> Len(u.messages) + 2]),
                       !.abortControllerRef = Len(u.requests) + 1]

\* The catch blocks of handleEnrich and handleSend for an error that is not
\* an AbortError (index.ts:154-159, 243-248).
uiFail(u, n, message) ==
    [u EXCEPT !.error = message, !.phase = "error", !.abortControllerRef = 0,
              !.requests[n] = DoneRequest]

\* The lines of one chunk of the chat stream (index.ts:213-231): the content
\* they add to the assistant message, and whether [DONE] was among them.
RECURSIVE uiLines(_, _, _)
uiLines(lines, i, acc) ==
    IF i > Len(lines) THEN [content |-> acc, done |-> FALSE]
    ELSE LET line == lines[i]
         IN  IF ~startsWith(line, "data: ") THEN uiLines(lines, i + 1, acc)
             ELSE LET data == SubSeq(line, 7, Len(line))
                  IN  IF data = "[DONE]" THEN [content |-> acc, done |-> TRUE]
                      ELSE IF startsWith(data, "{\"content\":\"") /\ endsWith(data, "\"}")
                      THEN uiLines(lines, i + 1,
                                   acc \o SubSeq(data, 13, Len(data) - 2))
                      ELSE uiLines(lines, i + 1, acc)

\* The end of handleSend after its read loop (index.ts:236-240).
uiFinish(u, n) ==
    [u EXCEPT !.phase = "idle", !.input = "", !.enrichedPrompt = "",
              !.abortControllerRef = 0, !.requests[n] = DoneRequest]

\* handleEnrich or handleSend of the request n, from the await that the
\* event ev settles to the next await or to the end (index.ts:143-159,
\* 196-248).
uiResume(u, n, ev) ==
    LET q == u.requests[n]
    IN  IF ev.type = "abort" THEN [u EXCEPT !.requests[n] = DoneRequest]
        ELSE IF ev.type = "networkError" THEN uiFail(u, n, "Failed to fetch")
        ELSE IF q.kind = "enrich"
        THEN IF q.pc = "fetch"
             THEN IF ~ev.ok THEN uiFail(u, n, "Enrichment failed")
                  ELSE [u EXCEPT !.requests[n].pc = "json", !.requests[n].wire = ev.body]
             ELSE [u EXCEPT !.enrichedPrompt = q.wire, !.phase = "review",
                            !.abortControllerRef = 0, !.requests[n] = DoneRequest]
        ELSE IF q.pc = "fetch"
        THEN IF ~ev.ok THEN uiFail(u, n, "Error: " \o ev.statusText)
             ELSE IF ~ev.hasBody THEN uiFail(u, n, "No response body")
             ELSE [u EXCEPT !.requests[n].pc = "read", !.requests[n].wire = ev.body]
        ELSE IF ev.type = "end" THEN uiFinish(u, n)
        ELSE LET got == CHOOSE r \in {uiLines(split(SubSeq(q.wire, 1, ev.n), "\n"), 1, "")} :
                            TRUE
                 u1 == [u EXCEPT !.messages[q.assistant].content = @ \o got.content,
                                 !.requests[n].wire = SubSeq(q.wire, ev.n + 1, Len(q.wire))]
             IN  IF got.done THEN uiFinish(u1, n) ELSE u1

UiUnchanged == UNCHANGED <<ctx, lastCall, env, call, sessionStore, execs>>

\* The user edits the input textarea.
UiSetInput ==
    /\ ~InputDisabled
    /\ \E t \in UiInputs \ {ui.input} : ui' = [ui EXCEPT !.input = t]
    /\ UiUnchanged

\* The user picks an intent level.
UiSetIntentLevel ==
    /\ ~IntentSelectDisabled
    /\ \E i \in UiIntentLevels \ {ui.intentLevel} : ui' = [ui EXCEPT !.intentLevel = i]
    /\ UiUnchanged

\* The user edits the enriched prompt.
UiSetEnrichedPrompt ==
    /\ PanelShown /\ ui.phase # "enriching"
    /\ ~EnrichedPromptDisabled
    /\ \E t \in UiEdits \ {ui.enrichedPrompt} : ui' = [ui EXCEPT !.enrichedPrompt = t]
    /\ UiUnchanged

\* The user dismisses the enriched prompt.
UiDismiss ==
    /\ PanelShown
    /\ ~DismissDisabled
    /\ ui.enrichedPrompt # ""
    /\ ui' = [ui EXCEPT !.enrichedPrompt = ""]
    /\ UiUnchanged

UiClickStop ==
    /\ StopShown
    /\ ui' = handleStop(ui)
    /\ UiUnchanged

UiClickEnrich ==
    /\ ~StopShown
    /\ ~EnrichDisabled
    /\ Len(ui.requests) < MaxUiRequests
    /\ ui' = handleEnrich(ui)
    /\ UiUnchanged

UiClickSend(useEnhanced) ==
    /\ ~StopShown
    /\ IF useEnhanced THEN ~EnhancedDisabled ELSE ~RawDisabled
    /\ Len(ui.requests) < MaxUiRequests
    /\ ui' = handleSend(ui, useEnhanced)
    /\ UiUnchanged

UiResume(n) ==
    /\ n \in DOMAIN ui.requests
    /\ ui.requests[n].pc # "done"
    /\ \E ev \in uiEvents(ui.requests[n]) : ui' = uiResume(ui, n, ev)
    /\ UiUnchanged

UiInit ==
    /\ env = DefaultEnv
    /\ sessionStore = <<>>
    /\ execs = [e \in Execs |-> IdleExec]
    /\ call = IdleCall
    /\ ctx = NewContext("", "casual", <<>>)
    /\ lastCall = NoCall
    /\ ui = IdleUi

UiNext ==
    \/ UiSetInput
    \/ UiSetIntentLevel
    \/ UiSetEnrichedPrompt
    \/ UiDismiss
    \/ UiClickStop
    \/ UiClickEnrich
    \/ \E useEnhanced \in BOOLEAN : UiClickSend(useEnhanced)
    \/ \E n \in 1..MaxUiRequests : UiResume(n)

UiSpec == UiInit /\ [][UiNext]_vars

(***************************************************************************)
(* Claims about the steps.                                                 *)
(***************************************************************************)
HasNoOuterWhitespace(s) ==
    s = "" \/ (~IsWhitespace(CharAt(s, 1)) /\ ~IsWhitespace(CharAt(s, Len(s))))

HasNoWhitespaceRun(s) ==
    \A i \in 1..(Len(s) - 1) :
        ~(IsWhitespace(CharAt(s, i)) /\ IsWhitespace(CharAt(s, i + 1)))

\* C7: for every input, the result of normalizeStep has no leading or trailing
\* white space, no run of two or more white space characters and a length of
\* at most the hard limit, truncated inputs included.
C7_NormalizedShape ==
    lastCall.fn = "normalizeStep" =>
        /\ HasNoOuterWhitespace(lastCall.ret.userMessage)
        /\ HasNoWhitespaceRun(lastCall.ret.userMessage)
        /\ Len(lastCall.ret.userMessage) <= MaxMessageLen

\* C8: normalizeStep is idempotent: applied to one of its own results it
\* returns that result unchanged.
C8_NormalizeIdempotent ==
    (lastCall.fn = "normalizeStep" /\ lastCall.argFrom = "normalizeStep") =>
        lastCall.ret = lastCall.arg

\* The text contains the phrase k when letter case is ignored.
ContainsIgnoringCase(s, k) ==
    \E i \in 1..(Len(s) - Len(k) + 1) :
        toLowerCase(SubSeq(s, i, i + Len(k) - 1)) = k

DenylistedPhrases == {"ignore previous instructions", "system prompt", "drop table"}

IsPrefix(a, b) == Len(a) <= Len(b) /\ SubSeq(b, 1, Len(a)) = a

\* C9: safetyCheckStep leaves userMessage as it is, keeps every flag it was
\* given, and from an empty flag list yields exactly the one flag
\* unsafe_keyword_detected when a denylisted phrase occurs (ignoring case,
\* however many occur) and no flag when none occurs.
C9_SafetyCheckAnnotates ==
    lastCall.fn = "safetyCheckStep" =>
        /\ lastCall.ret.userMessage = lastCall.arg.userMessage
        /\ IsPrefix(lastCall.arg.safetyFlags, lastCall.ret.safetyFlags)
        /\ lastCall.arg.safetyFlags = <<>> =>
              IF \E k \in DenylistedPhrases :
                     ContainsIgnoringCase(lastCall.arg.userMessage, k)
              THEN lastCall.ret.safetyFlags = <<"unsafe_keyword_detected">>
              ELSE lastCall.ret.safetyFlags = <<>>

\* Two denylisted phrases match a text written with capitals, and one flag results.
C9_Witness ==
    /\ lastCall.fn = "safetyCheckStep"
    /\ lastCall.arg.safetyFlags = <<>>
    /\ ContainsIgnoringCase(lastCall.arg.userMessage, "drop table")
    /\ ContainsIgnoringCase(lastCall.arg.userMessage, "system prompt")
    /\ ~includes(lastCall.arg.userMessage, "drop table")
    /\ lastCall.ret.safetyFlags = <<"unsafe_keyword_detected">>

(***************************************************************************)
(* Claims about the rewrite stage and the clients' chat.                   *)
(***************************************************************************)
\* C4: on a context that holds a flag, aiEnrichmentStep returns the refusal
\* text and calls neither chat nor streamChat, whatever the intent level and
\* the configured backend.
C4_RefusalWithoutBackend ==
    (call.entry \in {"aiEnrichmentStep", "runPipeline", "/api/enrich"}
        /\ call.state # "rejected" /\ Len(call.c.safetyFlags) > 0) =>
        /\ call.state = "returned"
        /\ call.enrichedText = "I cannot fulfill this request due to safety concerns."
        /\ call.backendCalls = 0
        /\ call.gen = NoGen
        /\ call.chat.status = "none"

\* A caller's own flag, the deep-dive level and the hosted backend configured.
C4_Witness ==
    /\ call.entry = "aiEnrichmentStep"
    /\ call.c.safetyFlags = <<"flagged_by_caller">>
    /\ call.c.intentLevel = "deep-dive"
    /\ createLLMClient(env).class = "RealLLMClient"
    /\ call.state = "returned"
    /\ call.enrichedText = RefusalText

\* C5: on a context without flags, when chat fails with an error other than
\* the cancellation error, aiEnrichmentStep returns the context's userMessage
\* unchanged, and runPipeline returns it as its result.
C5_FallbackOnBackendError ==
    (call.chat.status = "threw" /\ call.chat.error.name # "AbortError") =>
        /\ call.c.safetyFlags = <<>>
        /\ call.state = "returned"
        /\ call.enrichedText = call.c.userMessage
        /\ call.entry # "aiEnrichmentStep" =>
               call.messages = << [role |-> "assistant", content |-> call.c.userMessage] >>
        /\ call.entry = "/api/enrich" => call.response.status = 200

\* The connection fails after chat has gathered fragments; runPipeline still
\* returns the normalized text.
C5_Witness ==
    /\ call.entry = "runPipeline"
    /\ call.chat.status = "threw"
    /\ call.chat.error = NetworkError
    /\ call.chat.result # ""
    /\ call.c.userMessage = "hi there"
    /\ call.enrichedText = "hi there"

\* C6: when chat fails with the cancellation error, aiEnrichmentStep and
\* runPipeline throw that same error: no text is returned, and the endpoint
\* tells it from a failure (it sends no 500).
C6_CancellationPropagates ==
    (call.chat.status = "threw" /\ call.chat.error.name = "AbortError") =>
        /\ call.state = "threw"
        /\ call.error = call.chat.error
        /\ call.error.name = "AbortError"
        /\ call.enrichedText = ""
        /\ call.messages = <<>>
        /\ call.response = NoResponse

\* The response of POST /api/enrich closes while the mock client is typing.
C6_Witness ==
    /\ call.entry = "/api/enrich"
    /\ call.gen.class = "MockLLMClient"
    /\ call.yielded # <<>>
    /\ call.chat.status = "threw"
    /\ call.state = "threw"
    /\ call.error = MockAbortError

\* C10: for each client, the text chat has gathered is the concatenation, in
\* order, of the fragments streamChat has yielded, chat returns it when
\* streamChat returns, and chat throws the error streamChat throws.
C10_ChatIsConcatenatedStream ==
    call.gen # NoGen =>
        /\ call.chat.result = concatAll(call.yielded)
        /\ call.streamStatus = "returned" =>
               (call.chat.status = "returned" /\ call.enrichedText = concatAll(call.yielded))
        /\ call.streamStatus = "threw" =>
               (call.chat.status = "threw" /\ call.chat.error = call.streamError)

\* The hosted client yields two fragments and chat returns their concatenation.
C10_Witness ==
    /\ call.gen.class = "RealLLMClient"
    /\ call.yielded = <<"Hi", "!">>
    /\ call.streamStatus = "returned"
    /\ call.chat.status = "returned"
    /\ call.chat.result = "Hi!"

(***************************************************************************)
(* Claims about the chat execution.                                        *)
(***************************************************************************)
IsContentFrame(f) == DOMAIN f = {"content"}

\* The contents of the content frames among frames, in order.
RelayedContents(frames) ==
    LET at == {n \in DOMAIN frames : IsContentFrame(frames[n])}
    IN  [k \in 1..Cardinality(at) |->
            frames[CHOOSE n \in at : Cardinality({m \in at : m < n}) = k - 1].content]

\* The step in which request e completes appends to its session the user
\* message of the prompt and the assistant message of the relayed text, and
\* nothing else changes in the store.
CompletionAppendsExchange(e) ==
    (execs[e].state # "completed" /\ execs'[e].state = "completed") =>
        LET x == execs'[e]
        IN  /\ DOMAIN sessionStore' = DOMAIN sessionStore
            /\ \A s \in DOMAIN sessionStore :
                   sessionStore'[s] =
                       IF s = x.sessionId
                       THEN sessionStore[s] \o
                            << [role |-> "user", content |-> x.finalPrompt],
                               [role |-> "assistant",
                                content |-> concatAll(RelayedContents(x.frames))] >>
                       ELSE sessionStore[s]

\* C1: a chat execution that completes makes its session's history grow by
\* exactly two entries, in this order: a user message holding the prompt
\* sent, then an assistant message holding the concatenation of the
\* fragments relayed during the run.
C1_CompletionAppendsExchange ==
    [][\A e \in Execs : CompletionAppendsExchange(e)]_vars

\* A prompt sent with the system role into a session that has a history
\* completes, and is stored with the user role behind that history.
C1_Witness ==
    \E e \in Execs :
        LET x == execs[e]
        IN  /\ x.state = "completed"
            /\ x.useSystemRole
            /\ Len(x.historyBefore) = 2
            /\ Len(x.yielded) >= 2
            /\ Len(sessionStore[x.sessionId]) = 4
            /\ sessionStore[x.sessionId][3] = [role |-> "user", content |-> x.finalPrompt]
            /\ sessionStore[x.sessionId][4].content = concatAll(x.yielded)

\* C2: when the cancellation signal is raised after streaming has begun and
\* before the run has finished, the exchange is not persisted: the session's
\* history after the run is the history before it, for every backend and
\* every point of the emission.
C2_CancelledRunNotPersisted ==
    \A e \in Execs :
        (execs[e].aborted /\ execs[e].state \in {"completed", "aborted", "failed"}) =>
            sessionStore[execs[e].sessionId] = execs[e].historyBefore

\* C3: when streamChat throws an error that is not a cancellation, before or
\* after fragments were relayed, the error frame is written in place of the
\* DONE frame, the session keeps its messages, and the fragments relayed
\* before the error stay delivered.
C3_FailureWritesErrorFrame ==
    \A e \in Execs :
        (execs[e].streamStatus = "threw" /\ execs[e].streamError.name # "AbortError") =>
            /\ execs[e].state = "failed"
            /\ execs[e].frames =
                   ContentFrames(execs[e].yielded) \o <<[error |-> "Stream interrupted"]>>
            /\ \A n \in DOMAIN execs[e].frames : execs[e].frames[n] # DoneFrame
            /\ execs[e].ended
            /\ sessionStore[execs[e].sessionId] = execs[e].historyBefore

\* The connection fails after a fragment was relayed, in a session that
\* already has a history.
C3_Witness ==
    \E e \in Execs :
        /\ execs[e].state = "failed"
        /\ execs[e].streamError = NetworkError
        /\ execs[e].yielded # <<>>
        /\ Len(execs[e].historyBefore) = 2
        /\ Len(sessionStore[execs[e].sessionId]) = 2


(***************************************************************************)
(* Claims about the factory.                                               *)
(***************************************************************************)
ForceMock(e) == e.USE_MOCK_LLM = "true"

\* C11: createLLMClient depends on the configuration alone, read at each
\* call: a set force-mock flag gives the simulated backend; else the
\* provider "ollama" gives the local-inference backend; else a present
\* credential gives the hosted backend; else the simulated backend.  The
\* client a request is given is the one of the configuration at that
\* request, whatever client the request before it was given.
C11_SelectionPolicy ==
    lastCall.fn = "createLLMClient" =>
        LET cfg   == lastCall.arg
            class == lastCall.ret.class
        IN  /\ ForceMock(cfg) => class = "MockLLMClient"
            /\ (~ForceMock(cfg) /\ cfg.LLM_PROVIDER = "ollama") => class = "OllamaClient"
            /\ (~ForceMock(cfg) /\ cfg.LLM_PROVIDER # "ollama" /\ cfg.LLM_API_KEY # "")
                   => class = "RealLLMClient"
            /\ (~ForceMock(cfg) /\ cfg.LLM_PROVIDER # "ollama" /\ cfg.LLM_API_KEY = "")
                   => class = "MockLLMClient"

\* The force-mock flag is set together with the provider "ollama" and a
\* credential, in a request that follows one served by another backend.
C11_Witness ==
    /\ lastCall.fn = "createLLMClient"
    /\ lastCall.argFrom = "createLLMClient"
    /\ lastCall.arg.USE_MOCK_LLM = "true"
    /\ lastCall.arg.LLM_PROVIDER = "ollama"
    /\ lastCall.arg.LLM_API_KEY # ""
    /\ lastCall.prev.class = "RealLLMClient"
    /\ lastCall.ret.class = "MockLLMClient"


(***************************************************************************)
(* Claims about the message list of POST /api/chat.                        *)
(***************************************************************************)
\* The session's history as the store holds it; a session the store does
\* not know has none.
HistoryOf(store, sessionId) ==
    IF sessionId \in DOMAIN store THEN store[sessionId] ELSE <<>>

\* The step in which the request e is accepted passes to streamChat the
\* history the store held for its session followed by one message of the
\* prompt, of role system with the flag and user without it.
SendsHistoryPlusOne(e) ==
    (execs[e].state = "idle" /\ execs'[e].state \notin {"idle", "rejected"}) =>
        LET x    == execs'[e]
            role == IF x.useSystemRole THEN "system" ELSE "user"
        IN  /\ x.messagesToSend =
                   HistoryOf(sessionStore, x.sessionId)
                       \o << [role |-> role, content |-> x.finalPrompt] >>
            /\ HistoryOf(sessionStore, x.sessionId) = <<>>
                   => Len(x.messagesToSend) = 1
            /\ x.gen.class = "MockLLMClient" => x.gen.prompt = x.finalPrompt

IsErrorFrame(f) == DOMAIN f = {"error"}

IsTerminalFrame(f) == f = DoneFrame \/ IsErrorFrame(f)

C14_MockThrowsWhenCancelled ==
    ( /\ call.gen.class = "MockLLMClient"
      /\ call.aborted
      /\ call.abortedAfter >= 1
      /\ call.streamStatus # "suspended" ) =>
        /\ call.streamStatus = "threw"
        /\ call.streamError = MockAbortError


(***************************************************************************)
(* Claims about requests in flight together.                               *)
(***************************************************************************)
ExchangeOf(x) ==
    << [role |-> "user", content |-> x.finalPrompt],
       [role |-> "assistant", content |-> concatAll(x.yielded)] >>

\* d completed while e was in flight for the same session: both assembled
\* their lists from the same history, and d's handler has just finished.
CompletedDuring(d, e) ==
    /\ d # e
    /\ execs[d].state = "completed"
    /\ execs[d].sessionId = execs[e].sessionId
    /\ execs[d].historyBefore = execs[e].historyBefore

\* The step in which e completes puts e's two entries at the end of its
\* session's history, behind everything the history held, the entries of a
\* request that completed during e's run among them.
LastToCompleteIsLast(e) ==
    (execs[e].state = "streaming" /\ execs'[e].state = "completed") =>
        LET x == execs'[e]
            h == sessionStore'[x.sessionId]
            n == Len(h)
        IN  /\ n >= 2
            /\ SubSeq(h, n - 1, n) = ExchangeOf(x)
            /\ SubSeq(h, 1, n - 2) = sessionStore[x.sessionId]
            /\ \A d \in Execs :
                   CompletedDuring(d, e) =>
                       /\ n >= 4
                       /\ SubSeq(h, n - 3, n - 2) = ExchangeOf(execs[d])

\* C15: when two chat executions for the same sessionId are in flight
\* together and both complete, the one that completes last has its two
\* entries as the last two entries of the session's history, whichever of
\* the two started first.
C15_LastToCompleteIsLast == [][\A e \in Execs : LastToCompleteIsLast(e)]_vars

\* Two requests with different prompts ran together for one session; the
\* one that started first completed last, and its entries are the last.
C15_Witness ==
    /\ execs[1].state = "completed"
    /\ execs[2].state = "completed"
    /\ execs[1].sessionId = execs[2].sessionId
    /\ execs[1].finalPrompt # execs[2].finalPrompt
    /\ execs[1].historyBefore = <<>>
    /\ execs[2].historyBefore = <<>>
    /\ sessionStore[execs[1].sessionId] = ExchangeOf(execs[2]) \o ExchangeOf(execs[1])


(***************************************************************************)
(* Claims about the states of a chat execution.  The handler assembles the *)
(* message list and reaches the first await of the generator in one step   *)
(* of the event loop (ChatStart), so the assembling state lies inside the  *)
(* step from idle to streaming; closed marks a request whose handler has   *)
(* returned and whose record is dropped.                                   *)
(***************************************************************************)
TerminalStates == {"completed", "aborted", "failed"}

\* The step from state a to state b of request e is one the state machine
\* has, and the terminal state entered is the one the generator's end calls for.
ExecTransition(e) ==
    LET a == execs[e].state
        b == execs'[e].state
        x == execs'[e]
    IN  a # b =>
            \/ a = "idle" /\ b \in {"streaming", "rejected"}
            \/ /\ a = "streaming"
               /\ b \in TerminalStates
               /\ b = "completed" <=> x.streamStatus = "returned"
               /\ b = "aborted" <=>
                      (x.streamStatus = "threw" /\ x.streamError.name = "AbortError")
               /\ b = "failed" <=>
                      (x.streamStatus = "threw" /\ x.streamError.name # "AbortError")
            \/ a \in TerminalStates \cup {"rejected"} /\ b = "closed"

\* C16: a chat execution goes from idle through assembling to streaming and
\* then to exactly one of completed, aborted and failed; it makes no other
\* transition and none out of a terminal state to another state of the
\* machine.  completed is entered only when the generator is exhausted
\* without error, aborted only on an AbortError, failed only on another error.
C16_StateMachine == [][\A e \in Execs : ExecTransition(e)]_vars

\* After a request that was handled to its end, a second one is streaming
\* and then fails with fragments relayed.
C16_Witness ==
    /\ execs[1].state = "closed"
    /\ execs[2].state = "failed"
    /\ execs[2].streamStatus = "threw"
    /\ execs[2].yielded # <<>>


(***************************************************************************)
(* Claims about the end of a chat execution.                               *)
(***************************************************************************)
\* The request is in a terminal state, its last frame is the terminal
\* marker and its response is ended, still with the status it was given.
TerminatedWithMarker(e) ==
    /\ execs[e].state \in TerminalStates
    /\ execs[e].frames # <<>>
    /\ IsTerminalFrame(execs[e].frames[Len(execs[e].frames)])
    /\ execs[e].ended
    /\ execs[e].status = 200

\* C17: every chat execution that passed validation eventually reaches a
\* terminal state in which a terminal marker is written and the response is
\* ended, when the backend's sequence ends or fails or the signal is
\* raised; an error of the backend ends in that marker, not in an error of
\* the handler.
C17_EventuallyTerminated ==
    (execs[1].state = "streaming") ~> TerminatedWithMarker(1)

\* A run of the local-inference backend came to its end through the reads
\* of its body.
C17_Witness ==
    \E e \in Execs :
        /\ TerminatedWithMarker(e)
        /\ execs[e].gen.class = "OllamaClient"
        /\ execs[e].state = "completed"
        /\ Len(execs[e].yielded) >= 2


(***************************************************************************)
(* Claims about the result of the pipeline.                                *)
(***************************************************************************)
\* C18: whatever the rewrite stage ends with short of a cancellation (the
\* model's rewrite, the refusal, the fallback), runPipeline returns a list
\* of exactly one message, of role assistant, and formatEnrichedPrompt
\* returns that message's content unchanged.
C18_OneAssistantMessage ==
    (call.state = "returned" /\ call.entry \in {"runPipeline", "/api/enrich"}) =>
        /\ Len(call.messages) = 1
        /\ call.messages[1].role = "assistant"
        /\ call.messages[1].content = call.enrichedText
        /\ formatEnrichedPrompt(call.messages) = call.messages[1].content
        /\ call.entry = "/api/enrich" =>
               call.response.enrichedPrompt = call.messages[1].content

\* The endpoint returns a rewrite that the backend streamed in fragments.
C18_Witness ==
    /\ call.state = "returned"
    /\ call.entry = "/api/enrich"
    /\ call.streamStatus = "returned"
    /\ Len(call.yielded) >= 2
    /\ call.response.enrichedPrompt = concatAll(call.yielded)

\* C19: a successful POST /api/enrich for a safe message answers 200 with
\* the metadata and an enrichedPrompt that contains the separator text
\* "User request:".
C19_EnrichedPromptHasSeparator ==
    ( /\ call.entry = "/api/enrich"
      /\ call.state = "returned"
      /\ call.c.safetyFlags = <<>> ) =>
        /\ call.response.status = 200
        /\ "metadata" \in DOMAIN call.response
        /\ includes(call.response.enrichedPrompt, "User request:")


(***************************************************************************)
(* Claims about the validation of POST /api/chat.                          *)
(***************************************************************************)
\* C20: a POST /api/chat request whose finalPrompt is not empty is accepted
\* and answered with status 200 and a text/event-stream response, also
\* when it carries no sessionId.
C20_NonEmptyPromptIsStreamed ==
    \A e \in Execs :
        (execs[e].state \notin {"idle", "closed"} /\ execs[e].finalPrompt # "") =>
            /\ execs[e].status = 200
            /\ execs[e].contentType = "text/event-stream"


\* The step in which the request e is rejected answers 400 and does nothing
\* else: no generator is started, no frame is written, the store keeps its
\* keys and its histories.
RejectionHasNoEffect(e) ==
    (execs[e].state = "idle" /\ execs'[e].state = "rejected") =>
        /\ execs'[e].status = 400
        /\ execs'[e].gen = NoGen
        /\ execs'[e].frames = <<>>
        /\ execs'[e].yielded = <<>>
        /\ DOMAIN sessionStore' = DOMAIN sessionStore
        /\ sessionStore' = sessionStore

\* C21: a POST /api/chat request that fails validation, for one an empty
\* finalPrompt, is answered with status 400 and has no other effect: the
\* backend is not invoked, no frame is written, and the session store, the
\* set of its keys included, is unchanged.
C21_RejectionHasNoEffect == [][\A e \in Execs : RejectionHasNoEffect(e)]_vars

\* A request with an empty finalPrompt that names a session the store does
\* not hold was rejected.
C21_Witness ==
    \E e \in Execs :
        /\ execs[e].state = "rejected"
        /\ execs[e].finalPrompt = ""
        /\ execs[e].sessionId # ""
        /\ execs[e].sessionId \notin DOMAIN sessionStore
        /\ execs[e].status = 400


(***************************************************************************)
(* Claims about the web UI.                                                *)
(***************************************************************************)
\* Only handleStop sets the phase stopped, so a step into that phase from a
\* phase with a request in flight is a press of Stop.
StopPressed ==
    /\ ui.phase \in {"enriching", "streaming"}
    /\ ui'.phase = "stopped"

\* C22: pressing Stop while a request is in flight leaves the raw input text
\* unchanged, when the stopped request is an enrichment and when it is a
\* chat generation.
C22_StopKeepsInput == [][StopPressed => ui'.input = ui.input]_vars

\* The requests whose answer the UI is waiting for: sent, not settled and not
\* aborted.
InFlight == {n \in DOMAIN ui.requests : ui.requests[n].pc # "done" /\ ~ui.requests[n].aborted}

Locked == ui.phase \in {"enriching", "streaming"}

\* C23: while the phase is enriching or streaming the only enabled action of
\* the user is Stop (no enrich, no send, no change of the input, of the intent
\* level or of the enriched prompt), and in every reachable state at most one
\* request is in flight.
C23_LockedUntilStop ==
    /\ Locked =>
          /\ ENABLED UiClickStop
          /\ ~ENABLED UiClickEnrich
          /\ ~ENABLED UiClickSend(TRUE)
          /\ ~ENABLED UiClickSend(FALSE)
          /\ ~ENABLED UiSetInput
          /\ ~ENABLED UiSetIntentLevel
          /\ ~ENABLED UiSetEnrichedPrompt
          /\ ~ENABLED UiDismiss
    /\ Cardinality(InFlight) <= 1

\* A chat generation is in flight after an earlier request was stopped and
\* before its handler has seen the abort, the input is not blank and the UI
\* has not sent all its requests.
C23_Witness ==
    /\ ui.phase = "streaming"
    /\ trim(ui.input) # ""
    /\ Cardinality(InFlight) = 1
    /\ \E n \in DOMAIN ui.requests : ui.requests[n].aborted /\ ui.requests[n].pc # "done"
    /\ Len(ui.requests) < MaxUiRequests

(***************************************************************************)
(* Claims about the backends.                                              *)
(***************************************************************************)
\* The generator of the request e is the simulated backend's.
OnMock(e) == execs[e].gen.class = "MockLLMClient"

\* C24: for a non-empty message list and with no cancellation the simulated
\* backend's streamChat ends after finitely many fragments; their
\* concatenation contains the content of the last message, the last of them
\* is the end-of-response marker, and the marker is yielded once and nothing
\* after it.
C24_MockAnswersTheLastMessage ==
    \A e \in Execs : OnMock(e) =>
        LET x == execs[e]
        IN  /\ \A i \in DOMAIN x.yielded :
                   x.yielded[i] = EndOfMockResponse =>
                       i = Len(x.yielded) /\ x.gen.pc = "returned"
            /\ x.gen.pc = "returned" =>
                   /\ x.yielded # <<>>
                   /\ x.yielded[Len(x.yielded)] = EndOfMockResponse
                   /\ includes(concatAll(x.yielded),
                               x.messagesToSend[Len(x.messagesToSend)].content)
            /\ ~x.aborted => x.gen.pc # "threw"
            /\ Len(x.yielded) <= Len(split(MockResponseText(x.finalPrompt), " ")) + 1

\* The simulated backend has answered, uncancelled, a list of more than one
\* message whose last content is spread over several fragments.
C24_Witness ==
    \E e \in Execs :
        /\ OnMock(e)
        /\ execs[e].gen.pc = "returned"
        /\ ~execs[e].aborted
        /\ Len(execs[e].messagesToSend) > 1
        /\ execs[e].finalPrompt = "a b"

\* The opening sentence of each instruction block.
BlockOpening ==
    [ casual      |-> "You are a friendly and knowledgeable assistant.",
      academic    |-> "You are an academic instructor.",
      concise     |-> "You are a concise expert assistant.",
      deep_dive   |-> "You are an expert providing an in-depth explanation." ]

BlockKey(intent) ==
    IF intent = "academic" THEN "academic"
    ELSE IF intent = "concise" THEN "concise"
    ELSE IF intent = "deep-dive" THEN "deep_dive"
    ELSE "casual"

\* C25: the intent-level mapping is total and fixed.  Each of casual,
\* academic, concise and deep-dive selects one instruction block of its own,
\* any other or missing level selects the casual block, and the selected
\* block, and no other, is embedded in the meta-prompt the rewrite stage
\* sends to the backend.
C25_IntentSelectsOneBlock ==
    [][(call.backendCalls = 0 /\ call'.backendCalls > 0) =>
          /\ \A a, b \in IntentLevels :
                 a # b => getIntentSystemPrompt(a) # getIntentSystemPrompt(b)
          /\ \A i \in IntentInputs :
                 /\ startsWith(getIntentSystemPrompt(i), BlockOpening[BlockKey(i)])
                 /\ i \notin IntentLevels =>
                        getIntentSystemPrompt(i) = getIntentSystemPrompt("casual")
          /\ LET metaPrompt == call'.sent[Len(call'.sent)].content
             IN  /\ includes(metaPrompt,
                             "\"" \o getIntentSystemPrompt(call'.c.intentLevel) \o "\"")
                 /\ \A k \in DOMAIN BlockOpening :
                        includes(metaPrompt, BlockOpening[k])
                            <=> k = BlockKey(call'.c.intentLevel)]_vars

\* The rewrite stage has sent a meta-prompt for an intent level that is not
\* one of the four.
C25_Witness ==
    /\ call.backendCalls > 0
    /\ call.c.intentLevel = "unknown"
    /\ call.state = "returned"

\* C26: once the cancellation signal has been raised while a chat request is
\* streaming, no further content frame is relayed: every content frame of
\* the response was written before the signal was raised.
C26_NoContentAfterSignal ==
    [][\A e \in Execs :
           (execs[e].state = "streaming" /\ execs[e].aborted
                /\ execs'[e].state # "closed") =>
               RelayedContents(execs'[e].frames) = RelayedContents(execs[e].frames)]_vars

\* streamChat of the backend class has been called by itself and its fetch
\* has answered.
StreamingFrom(class) ==
    call.entry = "streamChat" /\ call.gen.class = class /\ call.body # ""

RECURSIVE TextsBeforeDone(_, _, _)
\* The non-empty incremental texts of the objects on the lines, up to the
\* first object whose done is true.
TextsBeforeDone(lines, n, out) ==
    IF n > Len(lines) THEN out
    ELSE LET data == JsonParseOllama(trim(lines[n]))
         IN  IF data.ok /\ data.done THEN out
             ELSE IF data.ok /\ data.response # ""
             THEN TextsBeforeDone(lines, n + 1, Append(out, data.response))
             ELSE TextsBeforeDone(lines, n + 1, out)

\* C27: the local-inference backend's streamChat stops at the first object
\* whose done is true.  It yields no text of that object or of an object
\* after it, and what it yields are the non-empty texts of the objects
\* before it, in order.
C27_OllamaStopsAtDone ==
    StreamingFrom("OllamaClient") =>
        LET texts == TextsBeforeDone(split(call.body, "\n"), 1, <<>>)
        IN  /\ IsPrefix(call.yielded, texts)
            /\ call.state = "returned" => call.yielded = texts

RECURSIVE ContentsBeforeDone(_, _, _)
\* The non-empty contents of the events on the lines, up to the DONE line.
ContentsBeforeDone(lines, n, out) ==
    IF n > Len(lines) THEN out
    ELSE LET trimmed == trim(lines[n])
             data    == JsonParseHosted(sliceFrom(trimmed, 6))
         IN  IF trimmed = "data: [DONE]" THEN out
             ELSE IF startsWith(trimmed, "data: ") /\ data.ok /\ data.content # ""
             THEN ContentsBeforeDone(lines, n + 1, Append(out, data.content))
             ELSE ContentsBeforeDone(lines, n + 1, out)

\* C28: the hosted backend's streamChat takes the line "data: [DONE]" for
\* the end of the stream: it yields no content of an event line after it.
C28_HostedStopsAtDone ==
    StreamingFrom("RealLLMClient") =>
        IsPrefix(call.yielded, ContentsBeforeDone(split(call.body, "\n"), 1, <<>>))

\* What streamChat yields when the whole body comes in one read.
InOneRead(client, body) ==
    LET g0 == streamResume(streamStart(client, <<>>).gen, FALSE, OkResponse(body)).gen
        r1 == streamResume(g0, FALSE, [type |-> "chunk", n |-> Len(body)])
    IN  IF r1.status = "returned" THEN r1.out
        ELSE r1.out \o streamResume(r1.gen, FALSE, [type |-> "end"]).out

\* The part of the body the reads have brought.
Consumed == SubSeq(call.body, 1, Len(call.body) - Len(call.gen.wire))

\* What the backend class yields for complete lines.
YieldedFor(class, lines) ==
    IF class = "OllamaClient" THEN ollamaLines(lines, 1, <<>>).out
    ELSE hostedLines(lines, 1, <<>>)

\* C29: for both network backends the fragments streamChat yields depend on
\* the bytes of the response only, not on the reads that bring them.
\* However the body is cut into reads, in the middle of a line or not, with
\* a newline after its last line or not, the fragments are those of the body
\* read at once; and between two reads the fragments yielded are those of
\* the complete lines that have arrived, the partial line being kept.
C29_ChunkingDoesNotMatter ==
    (call.entry = "streamChat" /\ call.body # "") =>
        /\ call.state = "returned" =>
               /\ call.yielded = InOneRead(createLLMClient(env), call.body)
               /\ concatAll(call.yielded)
                      = concatAll(InOneRead(createLLMClient(env), call.body))
        /\ call.state = "chat" =>
               LET pieces == split(Consumed, "\n")
               IN  /\ call.gen.buffer = pieces[Len(pieces)]
                   /\ call.yielded
                          = YieldedFor(call.gen.class, SubSeq(pieces, 1, Len(pieces) - 1))

\* A line has been cut by a read: fragments were yielded, the start of a line
\* is kept and the rest of the body is to come.
C29_Witness ==
    /\ call.entry = "streamChat"
    /\ call.state = "chat"
    /\ call.yielded # <<>>
    /\ call.gen.buffer # ""
    /\ call.gen.wire # ""
    /\ ~startsWith(call.gen.wire, "\n")

\* A line that holds no fragment: no JSON, or an object without the text.
Malformed(class, line) ==
    LET trimmed == trim(line)
    IN  IF class = "OllamaClient"
        THEN /\ trimmed # ""
             /\ LET data == JsonParseOllama(trimmed)
                IN  ~data.ok \/ (data.response = "" /\ ~data.done)
        ELSE /\ trimmed # ""
             /\ trimmed # "data: [DONE]"
             /\ LET data == JsonParseHosted(sliceFrom(trimmed, 6))
                IN  ~(startsWith(trimmed, "data: ") /\ data.ok /\ data.content # "")

\* The body without its complete lines that are malformed.
WithoutMalformed(class, body) ==
    LET pieces == split(body, "\n")
        kept   == SelectSeq(SubSeq(pieces, 1, Len(pieces) - 1),
                            LAMBDA line : ~Malformed(class, line))
    IN  concatAll([n \in 1..Len(kept) |-> kept[n] \o "\n"]) \o pieces[Len(pieces)]

\* C30: for both network backends a complete line that is no valid JSON, or
\* that lacks the incremental text, is skipped: streamChat raises no error,
\* yields nothing for it, and yields the fragments of the well-formed lines
\* before and after it in order, as if the line were not in the response.
C30_MalformedLinesAreSkipped ==
    (call.entry = "streamChat" /\ call.body # "") =>
        /\ call.state # "threw"
        /\ call.state = "returned" =>
               call.yielded = InOneRead(createLLMClient(env),
                                        WithoutMalformed(call.gen.class, call.body))

\* streamChat has returned the fragments of the lines around a line that is
\* no JSON.
C30_Witness ==
    /\ call.entry = "streamChat"
    /\ call.state = "returned"
    /\ includes(call.body, "{oops\n")
    /\ WithoutMalformed(call.gen.class, call.body) # call.body
    /\ Len(call.yielded) >= 2

IsStatusError(err) ==
    err.name = "Error" /\ includes(err.message, "API Error: ")

IsNoBodyError(err) ==
    err.name = "Error" /\ startsWith(err.message, "No response body received")

\* C32: for both network backends a response with a non-success status makes
\* streamChat throw an error that carries the status and the text of the
\* response body (when the text could be read), a response without a body
\* makes it throw an error, and no fragment is yielded before either error.
C32_HttpErrorsCarryStatusAndBody ==
    \A e \in Execs :
        LET x == execs[e]
        IN  /\ (x.streamStatus = "threw" /\ IsStatusError(x.streamError)) =>
                   /\ x.yielded = <<>>
                   /\ includes(x.streamError.message, "500")
                   /\ \/ includes(x.streamError.message, "overloaded")
                      \/ endsWith(x.streamError.message, "Unknown error")
            /\ (x.streamStatus = "threw" /\ IsNoBodyError(x.streamError)) =>
                   x.yielded = <<>>

\* C33: no operation retries.  An enrichment call invokes the backend's chat
\* at most once, not at all when it refuses and once when it returns the
\* backend's text, falls back or is aborted; a chat execution invokes the
\* backend's streamChat once, whether it completes, is aborted or fails.
C33_NoRetry ==
    /\ call.backendCalls <= 1
    /\ (call.state = "returned" /\ call.c.safetyFlags # <<>>) => call.backendCalls = 0
    /\ (call.state \in {"chat", "returned", "threw"} /\ call.c.safetyFlags = <<>>)
           => call.backendCalls = 1
    /\ \A e \in Execs :
           /\ execs[e].state \in {"streaming", "completed", "aborted", "failed"}
                  => execs[e].backendCalls = 1
           /\ execs[e].state \in {"idle", "rejected"} => execs[e].backendCalls = 0

\* A chat execution has failed on a backend error.
C33_Witness ==
    /\ execs[1].state = "failed"
    /\ execs[1].streamError.name # "AbortError"
    /\ execs[1].backendCalls = 1

(***************************************************************************)
(* Claims about the session store under concurrency.                       *)
(***************************************************************************)
\* The history h is a sequence of (user, assistant) pairs.
IsPairs(h) ==
    /\ Len(h) % 2 = 0
    /\ \A i \in DOMAIN h : h[i].role = (IF i % 2 = 1 THEN "user" ELSE "assistant")

\* The step appends to the session s the two entries of the exchange of one
\* execution that completes in it, one after the other.
AppendsOnePair(s) ==
    \E e \in Execs :
        /\ execs[e].state = "streaming"
        /\ execs'[e].state = "completed"
        /\ execs'[e].sessionId = s
        /\ sessionStore'[s] =
               sessionStore[s] \o
                   << [role |-> "user", content |-> execs'[e].finalPrompt],
                      [role |-> "assistant", content |-> execs'[e].fullResponse] >>

\* C34: under any interleaving of chat executions, every session's history
\* has even length and is made of consecutive (user, assistant) pairs.  No
\* entry has the system role (a prompt sent with the system role is stored
\* with the user role) and the two entries of an exchange are stored next to
\* each other.
C34_HistoryIsPairs ==
    /\ [](\A s \in DOMAIN sessionStore : IsPairs(sessionStore[s]))
    /\ [][\A s \in DOMAIN sessionStore :
              sessionStore'[s] # sessionStore[s] => AppendsOnePair(s)]_vars

\* Two executions on one session were in flight together, one of them sent
\* with the system role, and both have completed.
C34_Witness ==
    \E s \in DOMAIN sessionStore :
        /\ Len(sessionStore[s]) = 4
        /\ \A e \in Execs :
               /\ execs[e].state = "completed"
               /\ execs[e].sessionId = s
               /\ execs[e].historyBefore = <<>>
        /\ \E e \in Execs : execs[e].useSystemRole

\* The executions that have completed on the session s.
CompletedOn(s) == {e \in Execs : execs[e].state = "completed" /\ execs[e].sessionId = s}

\* The pair of the execution e is in the history h.
PairPresent(e, h) ==
    \E k \in 1..(Len(h) \div 2) :
        /\ h[2 * k - 1] = [role |-> "user", content |-> execs[e].finalPrompt]
        /\ h[2 * k] = [role |-> "assistant", content |-> execs[e].fullResponse]

\* C35: no update is lost.  While the handlers of the executions are known
\* (none has been forgotten), a session that n executions have completed on,
\* in any interleaving and also when they started before the session had a
\* history, holds 2n entries, and the pair of each of them is present.
C35_NoLostUpdate ==
    (\A e \in Execs : execs[e].state # "closed") =>
        \A s \in DOMAIN sessionStore :
            /\ Len(sessionStore[s]) = 2 * Cardinality(CompletedOn(s))
            /\ \A e \in CompletedOn(s) : PairPresent(e, sessionStore[s])

\* Two executions that both started on a session without history have
\* completed on it with different prompts.
C35_Witness ==
    /\ execs[1].state = "completed" /\ execs[2].state = "completed"
    /\ execs[1].sessionId = execs[2].sessionId
    /\ execs[1].historyBefore = <<>> /\ execs[2].historyBefore = <<>>
    /\ execs[1].finalPrompt # execs[2].finalPrompt
    /\ Len(sessionStore[execs[1].sessionId]) = 4

\* The executions whose handler holds a snapshot of its session's history.
Assembled == {e \in Execs : execs[e].state \in {"streaming", "completed", "aborted", "failed"}}

\* C36: the session history is append-only under any interleaving of
\* concurrent executions.  The snapshot an execution read when it assembled
\* its messages is a prefix of the session's history in every later state,
\* and no step removes a session, shortens a history or alters an entry.
C36_HistoryIsAppendOnly ==
    /\ [](\A e \in Assembled :
              /\ execs[e].sessionId \in DOMAIN sessionStore
              /\ IsPrefix(execs[e].historyBefore, sessionStore[execs[e].sessionId]))
    /\ [][\A s \in DOMAIN sessionStore :
              /\ s \in DOMAIN sessionStore'
              /\ IsPrefix(sessionStore[s], sessionStore'[s])]_vars

\* An execution is streaming with a snapshot that is shorter than the
\* history its session has by now: another execution completed meanwhile.
C36_Witness ==
    \E e \in Execs :
        /\ execs[e].state = "streaming"
        /\ Len(execs[e].historyBefore) < Len(sessionStore[execs[e].sessionId])

(***************************************************************************)
(* Claims about the order of the stages.                                   *)
(***************************************************************************)
RECURSIVE JoinWords(_, _, _, _)
\* The words of s from its i-th character on, joined by single spaces after
\* acc; gap tells that white space separates acc from the next word.
JoinWords(s, i, acc, gap) ==
    IF i > Len(s) THEN acc
    ELSE IF IsWhitespace(CharAt(s, i)) THEN JoinWords(s, i + 1, acc, acc # "")
    ELSE JoinWords(s, i + 1, acc \o (IF gap THEN " " ELSE "") \o CharAt(s, i), FALSE)

\* The raw text trimmed, its runs of white space collapsed, cut at the limit.
NormalizedText(raw) ==
    LET joined == JoinWords(raw, 1, "", FALSE)
    IN  SubSeq(joined, 1, IF Len(joined) > MaxMessageLen THEN MaxMessageLen
                          ELSE Len(joined))

HasDenylistedPhrase(text) == \E k \in DenylistedPhrases : ContainsIgnoringCase(text, k)

\* C37: runPipeline normalizes, then screens, then rewrites, and the screen
\* sees the normalized text.  The context of the call holds the normalized
\* text for every raw input; when that text holds a denylisted phrase, the
\* words of which white space or newlines may separate in the raw input,
\* the call returns the refusal text with a flag in the context and without
\* a backend call, and when it holds none the backend is called.
C37_ScreenSeesNormalizedText ==
    call.entry = "runPipeline" =>
        LET normalized == NormalizedText(call.rawMessage)
            denylisted == HasDenylistedPhrase(normalized)
        IN  /\ call.c.userMessage = normalized
            /\ denylisted =>
                   /\ call.state = "returned"
                   /\ call.enrichedText = RefusalText
                   /\ call.messages = << [role |-> "assistant", content |-> RefusalText] >>
                   /\ call.c.safetyFlags # <<>>
                   /\ call.backendCalls = 0
            /\ ~denylisted =>
                   /\ call.c.safetyFlags = <<>>
                   /\ call.backendCalls = 1

\* runPipeline has refused a raw text in which a newline among spaces
\* separates the words of a phrase, so that the raw text does not hold it.
C37_Witness ==
    /\ call.entry = "runPipeline"
    /\ call.state = "returned"
    /\ call.enrichedText = RefusalText
    /\ includes(call.rawMessage, "\n")
    /\ ~HasDenylistedPhrase(call.rawMessage)
    /\ call.rawMessage # call.c.userMessage

====
